---- MODULE Spec2Model ----
(***************************************************************************)
(* docinator: the scrape orchestrator (Scraper.ScrapePackages), the        *)
(* per-package scrape (Scraper.ScrapePackageWithRaw) and the scrape        *)
(* command's read-through cache loop (scrapeCmd.Run).                      *)
(***************************************************************************)
EXTENDS Integers, Sequences, FiniteSets, TLC

\* ---------------------------------------------------------------- bounds
MaxIds == 2          \* longest identifier list explored
MaxConc == 2         \* largest config.MaxConcurrency explored
MaxArgs == 2         \* longest argument list of the scrape command explored
MaxSiblings == 3     \* most children of a constants / variables section
MaxBlocks == 2       \* most function blocks / type blocks of a page
MaxMethods == 2      \* most method blocks nested in a type block
MaxChars == 3        \* longest remainder of a labelled count explored
MaxText == 3         \* longest text converted, the fragments apart
MaxOps == 3          \* most calls made on the store by a client

\* Identifiers: two import paths and one that is blank after trimming.
Idents == {"a", "b", " "}

SeqsUpTo(S, n) == UNION {[1..k -> S] : k \in 0..n}

\* ------------------------------------------------------------- variables
VARIABLES
    importPaths,     \* ScrapePackages' argument
    TestMode,        \* config.TestMode
    MaxConcurrency,  \* config.MaxConcurrency
    ctxDone,         \* ctx.Done() is closed
    mainpc,          \* position of the ScrapePackages caller goroutine
    loopIdx,         \* index of the range loop over importPaths
    st,              \* position of the task of each identifier
    semaphore,       \* number of tokens in the semaphore channel
    wg,              \* sync.WaitGroup counter
    packages,        \* the packages slice
    errors,          \* the errors slice
    stats,           \* Scraper.stats
    ret,             \* what ScrapePackages returned
    outcome,         \* history: what ScrapePackage did for each identifier
    atCancel,        \* history: tasks without a slot when ctx was cancelled
    args,            \* the scrape command's arguments
    store,           \* the store: "nil", "disabled" or "enabled"
    coll,            \* the store's collection: _id -> document
    cmdpc,           \* position of scrapeCmd.Run
    argIdx,          \* index of the range loop over args
    pkgs,            \* the command's pkgs slice
    rawHTMLs,        \* the command's rawHTMLs slice
    scrapeErrors,    \* the command's scrapeErrors slice
    log,             \* history: what each loop iteration did
    shadow,          \* history: the same run on an enabled store that misses
    emitted,         \* the packages the command has rendered
    page,            \* the page ParsePackagePage is given
    ppc,             \* position of the scrape of that page
    parsed,          \* what ParsePackagePage returned
    scraped,         \* what ScrapePackageWithRaw returned for that page
    input,           \* ConvertHTMLToMarkdown's argument
    html,            \* ConvertHTMLToMarkdown's variable html
    rpc,             \* position of ConvertHTMLToMarkdown
    fenceAt          \* where the scan of preCodeRe goes on

poolVars == <<importPaths, MaxConcurrency, ctxDone, mainpc, loopIdx, st,
              semaphore, wg, packages, errors, ret, outcome, atCancel>>

cmdVars == <<args, store, coll, cmdpc, argIdx, pkgs, rawHTMLs, scrapeErrors,
             log, shadow, emitted>>

parseVars == <<page, ppc, parsed, scraped>>

reduceVars == <<input, html, rpc, fenceAt>>

libVars == <<parseVars, reduceVars>>

vars == <<TestMode, stats, poolVars, cmdVars, libVars>>

\* ------------------------------------------------ ScrapePackageWithRaw
\* strings.TrimSpace on the identifiers of the model.
TrimSpace(s) == IF s = " " THEN "" ELSE s

NoError == [path |-> "", cause |-> "nil"]

\* fmt.Errorf("failed to scrape %s: %w", path, err)
ScrapeError(path, cause) == [path |-> path, cause |-> cause]

\* The *models.Package a call allocates; ptr is the identity of the pointer.
mockPackage(importPath, ptr) ==
    [ptr |-> ptr, Name |-> "cobra", ImportPath |-> importPath,
     Functions |-> <<"Execute">>]

parsedPackage(importPath, ptr) ==
    [ptr |-> ptr, Name |-> "parsed", ImportPath |-> importPath,
     Functions |-> <<>>]

\* The nil *models.Package (ptr 0 is the nil pointer).
NilPackage == [ptr |-> 0, Name |-> "", ImportPath |-> "", Functions |-> <<>>]

\* No *models.Document (GetByID's nil document; an _id without a document).
NoDoc == [ID |-> "", Package |-> NilPackage, RawHTML |-> ""]

NoReturn == [pkgs |-> <<>>, err |-> NoError]

NoResults == [pkgs |-> <<>>, rawHTMLs |-> <<>>, scrapeErrors |-> <<>>]

ZeroStats == [PackagesScraped |-> 0, RequestsMade |-> 0, Errors |-> 0]

\* The outcomes of ScrapePackageWithRaw that are errors.
FailOutcomes == {"empty", "rejected", "failed", "parseErr", "noData"}

\* What a request that was issued can end in.
ResponseOutcomes == {"failed", "parseErr", "noData", "ok"}

Tasks == 1..Len(importPaths)

ImmediateResultMockFirst(path, testMode) ==
    IF testMode THEN "mock"
    ELSE IF TrimSpace(path) = "" THEN "empty"
    ELSE "visit"

ImmediateResultNoMock(path, testMode) ==
    IF TrimSpace(path) = "" THEN "empty" ELSE "visit"

\* if strings.TrimSpace(importPath) == "" / if s.config.TestMode: what the call
\* yields before any I/O: "empty" (error), "mock" (test mode) or "visit".
ImmediateResult(path, testMode) ==
    IF TrimSpace(path) = "" THEN "empty"
    ELSE IF testMode THEN "mock"
    ELSE "visit"

CountRequestLost(s) == [s EXCEPT !.RequestsMade = 1]

\* s.stats.RequestsMade++ in the OnRequest handler
CountRequest(s) == [s EXCEPT !.RequestsMade = @ + 1]

\* The counters a response changes: s.stats.Errors++ in OnError,
\* s.stats.PackagesScraped++ at the end of ScrapePackageWithRaw.
CountResponse(s, o) ==
    IF o = "failed" THEN [s EXCEPT !.Errors = @ + 1]
    ELSE IF o = "ok" THEN [s EXCEPT !.PackagesScraped = @ + 1]
    ELSE s

\* --------------------------------------------------------- ScrapePackages
IsEmptyInputNever(paths) == FALSE

\* if len(importPaths) == 0
IsEmptyInput(paths) == Len(paths) = 0

EmptyInputError == [path |-> "", cause |-> "no import paths provided"]

ReturnedLastError(ps, errs) ==
    [pkgs |-> ps, err |-> IF Len(errs) > 0 THEN errs[Len(errs)] ELSE NoError]

\* return packages, errors[0]  /  return packages, nil
Returned(ps, errs) ==
    [pkgs |-> ps, err |-> IF Len(errs) > 0 THEN errs[1] ELSE NoError]

CanSendOffByOne(sem, cap) == sem <= cap

\* case semaphore <- struct{}{}: a send on a channel of capacity cap proceeds
\* when the buffer has room (no goroutine ever receives before it has sent).
CanSend(sem, cap) == sem < cap

\* States of a task in which it holds a semaphore slot.
Holding == {"acquired", "checked", "visiting", "requested", "appendPkg",
            "appendErr", "release"}

\* States of a task inside s.ScrapePackage.
InScrape == {"visiting", "requested"}

\* ------------------------------------------------------------ the page
\* A selection of at most one element: <<>> or <<x>>.
Opt(S) == {<<>>} \cup {<<x>> : x \in S}

\* The models.Package of the parser, before any field is set.
ZeroPackage ==
    [Name |-> "", ImportPath |-> "", Version |-> "", Imports |-> 0,
     ImportedBy |-> 0, Constants |-> <<>>, Variables |-> <<>>,
     Functions |-> <<>>, Types |-> <<>>]

\* A page without any of the elements the parser looks for.
EmptyPage ==
    [isHTML |-> TRUE, title |-> <<>>, breadcrumb |-> <<>>, version |-> <<>>,
     imports |-> <<>>, importedBy |-> <<>>, constants |-> <<>>,
     variables |-> <<>>, functions |-> <<>>, types |-> <<>>]

NoParse == [called |-> FALSE, pkg |-> ZeroPackage, err |-> "nil"]

NotScraped == [isNil |-> TRUE, pkg |-> ZeroPackage, err |-> "none"]

\* The converter is not running.
ReduceIdle ==
    /\ input = <<>>
    /\ html = <<>>
    /\ rpc = "idle"
    /\ fenceAt = 1

\* No page is being scraped.
ParseIdle ==
    /\ page = EmptyPage
    /\ ppc = "idle"
    /\ parsed = NoParse
    /\ scraped = NotScraped

\* The scrape command is not running.
CmdIdle ==
    /\ args = <<>>
    /\ store = "nil"
    /\ coll = [id \in Idents |-> NoDoc]
    /\ cmdpc = "idle"
    /\ argIdx = 1
    /\ pkgs = <<>>
    /\ rawHTMLs = <<>>
    /\ scrapeErrors = <<>>
    /\ log = <<>>
    /\ shadow = NoResults
    /\ emitted = <<>>

Init ==
    /\ importPaths \in SeqsUpTo(Idents, MaxIds)
    /\ TestMode \in BOOLEAN
    /\ MaxConcurrency \in 0..MaxConc
    /\ ctxDone = FALSE
    /\ mainpc = "entry"
    /\ loopIdx = 1
    /\ st = [t \in Tasks |-> "unspawned"]
    /\ semaphore = 0
    /\ wg = 0
    /\ packages = <<>>
    /\ errors = <<>>
    /\ stats = ZeroStats
    /\ ret = NoReturn
    /\ outcome = [t \in Tasks |-> "none"]
    /\ atCancel = {}
    /\ CmdIdle
    /\ ParseIdle
    /\ ReduceIdle

\* ScrapePackages up to the choice of the branch.
Entry ==
    /\ mainpc = "entry"
    /\ IF IsEmptyInput(importPaths)
       THEN /\ ret' = [pkgs |-> <<>>, err |-> EmptyInputError]
            /\ mainpc' = "returned"
       ELSE /\ ret' = ret
            /\ mainpc' = IF TestMode THEN "seq_select"
                         ELSE IF Len(importPaths) = 0 THEN "wait" ELSE "spawn"
    /\ UNCHANGED cmdVars
    /\ UNCHANGED libVars
    /\ UNCHANGED <<importPaths, TestMode, MaxConcurrency, ctxDone, loopIdx, st,
                   semaphore, wg, packages, errors, stats, outcome, atCancel>>

\* The context is cancelled (or its deadline passes) while the call runs.
Cancel ==
    /\ ~ctxDone
    /\ mainpc # "returned"
    /\ ctxDone' = TRUE
    /\ atCancel' = {t \in Tasks : st[t] \in {"unspawned", "waiting"}}
    /\ UNCHANGED cmdVars
    /\ UNCHANGED libVars
    /\ UNCHANGED <<importPaths, TestMode, MaxConcurrency, mainpc, loopIdx, st,
                   semaphore, wg, packages, errors, stats, ret, outcome>>

\* ---- sequential branch (TestMode)
\* for _, importPath := range importPaths { select { case <-ctx.Done(): break;
\* default: } ...: the `break` leaves the select, not the loop, so with the
\* context done or not the loop body goes on to the ScrapePackage call.
SeqSelect ==
    /\ mainpc = "seq_select"
    /\ loopIdx <= Len(importPaths)
    /\ mainpc' = "seq_call"
    /\ st' = [st EXCEPT ![loopIdx] = "selected"]
    /\ UNCHANGED cmdVars
    /\ UNCHANGED libVars
    /\ UNCHANGED <<importPaths, TestMode, MaxConcurrency, ctxDone, loopIdx,
                   semaphore, wg, packages, errors, stats, ret, outcome, atCancel>>

SeqNextIdxSkip(k) == k + 2

\* The index the sequential loop goes on with.
SeqNextIdx(k) == k + 1

\* pkg, err := s.ScrapePackage(ctx, importPath) and the append, in test mode.
SeqCall ==
    /\ mainpc = "seq_call"
    /\ LET path == importPaths[loopIdx]
           r == ImmediateResult(path, TestMode)
       IN /\ r \in {"empty", "mock"}
          /\ outcome' = [outcome EXCEPT ![loopIdx] = r]
          /\ IF r = "empty"
             THEN /\ errors' = Append(errors, ScrapeError(path, r))
                  /\ packages' = packages
             ELSE /\ packages' = Append(packages, mockPackage(path, loopIdx))
                  /\ errors' = errors
    /\ st' = [st EXCEPT ![loopIdx] = "done"]
    /\ loopIdx' = SeqNextIdx(loopIdx)
    /\ mainpc' = "seq_select"
    /\ UNCHANGED cmdVars
    /\ UNCHANGED libVars
    /\ UNCHANGED <<importPaths, TestMode, MaxConcurrency, ctxDone, semaphore,
                   wg, stats, ret, atCancel>>

\* The loop is over: return packages, errors[0] / return packages, nil.
SeqReturn ==
    /\ mainpc = "seq_select"
    /\ loopIdx > Len(importPaths)
    /\ ret' = Returned(packages, errors)
    /\ mainpc' = "returned"
    /\ UNCHANGED cmdVars
    /\ UNCHANGED libVars
    /\ UNCHANGED <<importPaths, TestMode, MaxConcurrency, ctxDone, loopIdx, st,
                   semaphore, wg, packages, errors, stats, outcome, atCancel>>

\* ---- parallel branch
\* wg.Add(1); go func(path string) {...}(importPath)
Spawn ==
    /\ mainpc = "spawn"
    /\ loopIdx <= Len(importPaths)
    /\ wg' = wg + 1
    /\ st' = [st EXCEPT ![loopIdx] = "waiting"]
    /\ loopIdx' = loopIdx + 1
    /\ mainpc' = IF loopIdx = Len(importPaths) THEN "wait" ELSE "spawn"
    /\ UNCHANGED cmdVars
    /\ UNCHANGED libVars
    /\ UNCHANGED <<importPaths, TestMode, MaxConcurrency, ctxDone, semaphore,
                   packages, errors, stats, ret, outcome, atCancel>>

\* select { case semaphore <- struct{}{}: ...
Acquire(t) ==
    /\ st[t] = "waiting"
    /\ CanSend(semaphore, MaxConcurrency)
    /\ semaphore' = semaphore + 1
    /\ st' = [st EXCEPT ![t] = "acquired"]
    /\ UNCHANGED cmdVars
    /\ UNCHANGED libVars
    /\ UNCHANGED <<importPaths, TestMode, MaxConcurrency, ctxDone, mainpc,
                   loopIdx, wg, packages, errors, stats, ret, outcome, atCancel>>

\* ... case <-ctx.Done(): return } (only the deferred wg.Done is left)
Abandon(t) ==
    /\ st[t] = "waiting"
    /\ ctxDone
    /\ st' = [st EXCEPT ![t] = "wgdone"]
    /\ outcome' = [outcome EXCEPT ![t] = "abandoned"]
    /\ UNCHANGED cmdVars
    /\ UNCHANGED libVars
    /\ UNCHANGED <<importPaths, TestMode, MaxConcurrency, ctxDone, mainpc,
                   loopIdx, semaphore, wg, packages, errors, stats, ret, atCancel>>

\* select { case <-ctx.Done(): return; default: } with the slot held
CheckCtx(t) ==
    /\ st[t] = "acquired"
    /\ IF ctxDone
       THEN /\ st' = [st EXCEPT ![t] = "release"]
            /\ outcome' = [outcome EXCEPT ![t] = "abandoned"]
       ELSE /\ st' = [st EXCEPT ![t] = "checked"]
            /\ outcome' = outcome
    /\ UNCHANGED cmdVars
    /\ UNCHANGED libVars
    /\ UNCHANGED <<importPaths, TestMode, MaxConcurrency, ctxDone, mainpc,
                   loopIdx, semaphore, wg, packages, errors, stats, ret, atCancel>>

\* s.ScrapePackage(ctx, path) up to c.Visit(url)
BeginScrape(t) ==
    /\ st[t] = "checked"
    /\ LET r == ImmediateResult(importPaths[t], TestMode)
       IN IF r = "visit"
          THEN /\ st' = [st EXCEPT ![t] = "visiting"]
               /\ outcome' = outcome
          ELSE /\ st' = [st EXCEPT ![t] = IF r = "mock" THEN "appendPkg"
                                          ELSE "appendErr"]
               /\ outcome' = [outcome EXCEPT ![t] = r]
    /\ UNCHANGED cmdVars
    /\ UNCHANGED libVars
    /\ UNCHANGED <<importPaths, TestMode, MaxConcurrency, ctxDone, mainpc,
                   loopIdx, semaphore, wg, packages, errors, stats, ret, atCancel>>

\* c.Visit(url) refuses the URL before any request is made
VisitRejected(t) ==
    /\ st[t] = "visiting"
    /\ st' = [st EXCEPT ![t] = "appendErr"]
    /\ outcome' = [outcome EXCEPT ![t] = "rejected"]
    /\ UNCHANGED cmdVars
    /\ UNCHANGED libVars
    /\ UNCHANGED <<importPaths, TestMode, MaxConcurrency, ctxDone, mainpc,
                   loopIdx, semaphore, wg, packages, errors, stats, ret, atCancel>>

\* c.Visit(url) issues the request: the OnRequest handler runs
VisitRequest(t) ==
    /\ st[t] = "visiting"
    /\ stats' = CountRequest(stats)
    /\ st' = [st EXCEPT ![t] = "requested"]
    /\ UNCHANGED cmdVars
    /\ UNCHANGED libVars
    /\ UNCHANGED <<importPaths, TestMode, MaxConcurrency, ctxDone, mainpc,
                   loopIdx, semaphore, wg, packages, errors, ret, outcome, atCancel>>

\* The request ends: OnError / OnHTML, c.Wait(), the checks of scrapeErr and
\* pkg == nil, and the PackagesScraped update.
Respond(t) ==
    /\ st[t] = "requested"
    /\ \E o \in ResponseOutcomes :
          /\ stats' = CountResponse(stats, o)
          /\ outcome' = [outcome EXCEPT ![t] = o]
          /\ st' = [st EXCEPT ![t] = IF o = "ok" THEN "appendPkg" ELSE "appendErr"]
    /\ UNCHANGED cmdVars
    /\ UNCHANGED libVars
    /\ UNCHANGED <<importPaths, TestMode, MaxConcurrency, ctxDone, mainpc,
                   loopIdx, semaphore, wg, packages, errors, ret, atCancel>>

\* What a task does after recording its error (return: the deferred calls).
AfterError(t) == "release"

\* errMu.Lock(); errors = append(errors, ...); errMu.Unlock(); return
AppendErr(t) ==
    /\ st[t] = "appendErr"
    /\ errors' = Append(errors, ScrapeError(importPaths[t], outcome[t]))
    /\ st' = [st EXCEPT ![t] = AfterError(t)]
    /\ UNCHANGED cmdVars
    /\ UNCHANGED libVars
    /\ UNCHANGED <<importPaths, TestMode, MaxConcurrency, ctxDone, mainpc,
                   loopIdx, semaphore, wg, packages, stats, ret, outcome, atCancel>>

AppendToLost(ps, pkg) == <<pkg>>

AppendToTwice(ps, pkg) == ps \o <<pkg, pkg>>

\* packages = append(packages, pkg) under mu
AppendTo(ps, pkg) == Append(ps, pkg)

\* mu.Lock(); packages = append(packages, pkg); mu.Unlock()
AppendPkg(t) ==
    /\ st[t] = "appendPkg"
    /\ packages' = AppendTo(packages,
                       IF outcome[t] = "mock" THEN mockPackage(importPaths[t], t)
                       ELSE parsedPackage(importPaths[t], t))
    /\ st' = [st EXCEPT ![t] = "release"]
    /\ UNCHANGED cmdVars
    /\ UNCHANGED libVars
    /\ UNCHANGED <<importPaths, TestMode, MaxConcurrency, ctxDone, mainpc,
                   loopIdx, semaphore, wg, errors, stats, ret, outcome, atCancel>>

\* defer func() { <-semaphore }()
Release(t) ==
    /\ st[t] = "release"
    /\ semaphore' = semaphore - 1
    /\ st' = [st EXCEPT ![t] = "wgdone"]
    /\ UNCHANGED cmdVars
    /\ UNCHANGED libVars
    /\ UNCHANGED <<importPaths, TestMode, MaxConcurrency, ctxDone, mainpc,
                   loopIdx, wg, packages, errors, stats, ret, outcome, atCancel>>

\* defer wg.Done()
WgDone(t) ==
    /\ st[t] = "wgdone"
    /\ wg' = wg - 1
    /\ st' = [st EXCEPT ![t] = "done"]
    /\ UNCHANGED cmdVars
    /\ UNCHANGED libVars
    /\ UNCHANGED <<importPaths, TestMode, MaxConcurrency, ctxDone, mainpc,
                   loopIdx, semaphore, packages, errors, stats, ret, outcome, atCancel>>

WaitPassesAtOnce(n) == TRUE

\* wg.Wait() passes
WaitPasses(n) == n = 0

\* wg.Wait(); return packages, errors[0] / return packages, nil
ParReturn ==
    /\ mainpc = "wait"
    /\ WaitPasses(wg)
    /\ ret' = Returned(packages, errors)
    /\ mainpc' = "returned"
    /\ UNCHANGED cmdVars
    /\ UNCHANGED libVars
    /\ UNCHANGED <<importPaths, TestMode, MaxConcurrency, ctxDone, loopIdx, st,
                   semaphore, wg, packages, errors, stats, outcome, atCancel>>

Next ==
    \/ Entry
    \/ Cancel
    \/ SeqSelect
    \/ SeqCall
    \/ SeqReturn
    \/ Spawn
    \/ \E t \in Tasks : Acquire(t)
    \/ \E t \in Tasks : Abandon(t)
    \/ \E t \in Tasks : CheckCtx(t)
    \/ \E t \in Tasks : BeginScrape(t)
    \/ \E t \in Tasks : VisitRejected(t)
    \/ \E t \in Tasks : VisitRequest(t)
    \/ \E t \in Tasks : Respond(t)
    \/ \E t \in Tasks : AppendErr(t)
    \/ \E t \in Tasks : AppendPkg(t)
    \/ \E t \in Tasks : Release(t)
    \/ \E t \in Tasks : WgDone(t)
    \/ ParReturn

Spec == Init /\ [][Next]_vars

\* ------------------------------------------------------------ the store
\* NewFromEnv and the command's handling of its error: "disabled" without
\* MONGODB_URI, nil when connecting fails, else "enabled".
StoreFromEnv(uriSet, connects) ==
    IF ~uriSet THEN "disabled"
    ELSE IF ~connects THEN "nil"
    ELSE "enabled"

StoreEnabledAlways(s) == TRUE

\* store != nil && store.Enabled()
StoreEnabled(s) == s = "enabled"

\* Documents the collection may hold before the run.
storedDoc(id) ==
    [ID |-> id,
     Package |-> [ptr |-> 1, Name |-> "stored", ImportPath |-> id,
                  Functions |-> <<>>],
     RawHTML |-> "stored html"]

nilPackageDoc(id) == [ID |-> id, Package |-> NilPackage, RawHTML |-> "stored html"]

\* Decode(&doc): the document read gets pointers of its own.
Decode(doc, ptr) ==
    IF doc.Package.ptr = 0 THEN doc ELSE [doc EXCEPT !.Package.ptr = ptr]

\* store.GetByID(ctx, id): the possible (document, error) results.
GetByIDResults(s, c, id, ptr) ==
    IF ~StoreEnabled(s)
    THEN {[doc |-> NoDoc, err |-> "store disabled"]}
    ELSE {[doc |-> NoDoc, err |-> "lookup failed"],
          [doc |-> Decode(c[id], ptr), err |-> "nil"]}

UpsertResultsInsertOnly(s, c, doc) ==
    IF ~StoreEnabled(s)
    THEN {[coll |-> c, err |-> "store disabled"]}
    ELSE IF doc = NoDoc \/ doc.ID = ""
    THEN {[coll |-> c, err |-> "invalid document or missing ID"]}
    ELSE {[coll |-> c, err |-> "upsert failed"],
          [coll |-> IF c[doc.ID] = NoDoc THEN [c EXCEPT ![doc.ID] = doc] ELSE c,
           err |-> "nil"]}

\* store.Upsert(ctx, doc): the possible (collection, error) results.
UpsertResults(s, c, doc) ==
    IF ~StoreEnabled(s)
    THEN {[coll |-> c, err |-> "store disabled"]}
    ELSE IF doc = NoDoc \/ doc.ID = ""
    THEN {[coll |-> c, err |-> "invalid document or missing ID"]}
    ELSE {[coll |-> c, err |-> "upsert failed"],
          [coll |-> [c EXCEPT ![doc.ID] = doc], err |-> "nil"]}

\* ------------------------------------------------------------ scrapeCmd.Run
\* What ScrapePackageWithRaw can do for a path.
ScrapeOutcomes(path, testMode) ==
    IF ImmediateResult(path, testMode) = "visit"
    THEN {"rejected"} \cup ResponseOutcomes
    ELSE {ImmediateResult(path, testMode)}

MockHTML == "mock html"

FetchedHTML(path) == "html of " \o path

\* The (pkg, rawHTML, err) ScrapePackageWithRaw returns for an outcome.
ScrapeResult(path, o, ptr) ==
    [pkg |-> IF o = "mock" THEN mockPackage(path, ptr)
             ELSE IF o = "ok" THEN parsedPackage(path, ptr)
             ELSE NilPackage,
     raw |-> IF o = "mock" THEN MockHTML
             ELSE IF o = "ok" THEN FetchedHTML(path)
             ELSE "",
     err |-> IF o \in {"mock", "ok"} THEN "nil" ELSE o]

\* The counters after a whole ScrapePackageWithRaw call.
StatsAfter(s, o) ==
    IF o \in ResponseOutcomes THEN CountResponse(CountRequest(s), o) ELSE s

IsCacheHitNever(r) == FALSE

IsCacheHitAnyDoc(r) == r.err = "nil" /\ r.doc # NoDoc

\* err == nil && doc != nil && doc.Package != nil
IsCacheHit(r) == r.err = "nil" /\ r.doc # NoDoc /\ r.doc.Package.ptr # 0

\* The lookup that was not made (store off).
NotLookedUp == [doc |-> NoDoc, err |-> "skipped"]

UpsertIDByName(pkg, importPath) ==
    IF pkg.ptr # 0 /\ pkg.Name # "" THEN pkg.Name ELSE importPath

\* id := importPath; if pkg != nil && pkg.ImportPath != "" { id = pkg.ImportPath }
UpsertID(pkg, importPath) ==
    IF pkg.ptr # 0 /\ pkg.ImportPath # "" THEN pkg.ImportPath ELSE importPath

ShouldUpsertUnlessHit(hit, serr, enabled) == ~hit /\ enabled

\* The pass reaches store.Upsert: no cache hit (continue), no scrape error
\* (continue), store != nil && store.Enabled().
ShouldUpsert(hit, serr, enabled) == ~hit /\ serr = "nil" /\ enabled

IterResultsHitWithoutRaw(R, enabled, lr, sr, path) ==
    IF enabled /\ IsCacheHit(lr)
    THEN [R EXCEPT !.pkgs = Append(@, lr.doc.Package)]
    ELSE IF sr.err # "nil"
    THEN [R EXCEPT !.scrapeErrors = Append(@, ScrapeError(path, sr.err))]
    ELSE [R EXCEPT !.pkgs = Append(@, sr.pkg), !.rawHTMLs = Append(@, sr.raw)]

\* The slices after one pass of the loop body, up to the upsert.
IterResults(R, enabled, lr, sr, path) ==
    IF enabled /\ IsCacheHit(lr)
    THEN [pkgs |-> Append(R.pkgs, lr.doc.Package),
          rawHTMLs |-> Append(R.rawHTMLs, lr.doc.RawHTML),
          scrapeErrors |-> R.scrapeErrors]
    ELSE IF sr.err # "nil"
    THEN [R EXCEPT !.scrapeErrors = Append(@, ScrapeError(path, sr.err))]
    ELSE [R EXCEPT !.pkgs = Append(@, sr.pkg), !.rawHTMLs = Append(@, sr.raw)]

AfterUpsertRecorded(R, uerr, id) ==
    IF uerr \in {"nil", "skipped"} THEN R
    ELSE [R EXCEPT !.scrapeErrors = Append(@, ScrapeError(id, uerr))]

\* if err := store.Upsert(ctx, doc); err != nil { log.Printf(...) }
AfterUpsert(R, uerr, id) == R

HardFailureOnAnyError(ps, errs) == Len(errs) > 0

\* len(scrapeErrors) > 0 && len(pkgs) == 0: log.Fatalf
HardFailure(ps, errs) == Len(errs) > 0 /\ Len(ps) = 0

Results == [pkgs |-> pkgs, rawHTMLs |-> rawHTMLs, scrapeErrors |-> scrapeErrors]

\* ScrapePackages is not running.
PoolIdle ==
    /\ importPaths = <<>>
    /\ MaxConcurrency = 0
    /\ ctxDone = FALSE
    /\ mainpc = "idle"
    /\ loopIdx = 1
    /\ st = <<>>
    /\ semaphore = 0
    /\ wg = 0
    /\ packages = <<>>
    /\ errors = <<>>
    /\ ret = NoReturn
    /\ outcome = <<>>
    /\ atCancel = {}

\* scrapeCmd.Run up to the loop: cobra.MinimumNArgs(1), the scraper, the store.
InitCmd ==
    /\ args \in SeqsUpTo(Idents, MaxArgs) \ {<<>>}
    /\ TestMode \in BOOLEAN
    /\ stats = ZeroStats
    /\ \E uriSet, connects \in BOOLEAN : store = StoreFromEnv(uriSet, connects)
    /\ coll \in [Idents -> UNION {{NoDoc, storedDoc(id), nilPackageDoc(id)} :
                                     id \in Idents}]
    /\ \A id \in Idents : coll[id] # NoDoc => coll[id].ID = id
    /\ store # "enabled" => \A id \in Idents : coll[id] = NoDoc
    /\ cmdpc = "loop"
    /\ argIdx = 1
    /\ pkgs = <<>>
    /\ rawHTMLs = <<>>
    /\ scrapeErrors = <<>>
    /\ log = <<>>
    /\ shadow = NoResults
    /\ emitted = <<>>
    /\ PoolIdle
    /\ ParseIdle
    /\ ReduceIdle

\* One pass of `for _, importPath := range args { ... }`.
CmdIter ==
    /\ cmdpc = "loop"
    /\ argIdx <= Len(args)
    /\ LET path == args[argIdx]
           enabled == StoreEnabled(store)
       IN \E lr \in (IF enabled THEN GetByIDResults(store, coll, path, argIdx)
                     ELSE {NotLookedUp}) :
          \E o \in ScrapeOutcomes(path, TestMode) :
          LET hit == enabled /\ IsCacheHit(lr)
              sr == ScrapeResult(path, o, argIdx)
              id == UpsertID(sr.pkg, path)
              doc == [ID |-> id, Package |-> sr.pkg, RawHTML |-> sr.raw]
              upserts == ShouldUpsert(hit, sr.err, enabled)
          IN \E ur \in (IF upserts THEN UpsertResults(store, coll, doc)
                        ELSE {[coll |-> coll, err |-> "skipped"]}) :
             \E sur \in {"nil", "upsert failed"} :
             LET R == AfterUpsert(IterResults(Results, enabled, lr, sr, path),
                                  ur.err, id)
             IN /\ pkgs' = R.pkgs
                /\ rawHTMLs' = R.rawHTMLs
                /\ scrapeErrors' = R.scrapeErrors
                /\ coll' = ur.coll
                /\ stats' = IF hit THEN stats ELSE StatsAfter(stats, o)
                /\ log' = Append(log,
                       [lookup |-> IF ~enabled THEN "skipped"
                                   ELSE IF lr.err # "nil" THEN "error"
                                   ELSE IF hit THEN "hit" ELSE "miss",
                        doc |-> lr.doc,
                        fetch |-> IF hit THEN "skipped" ELSE o,
                        upsert |-> ur.err,
                        id |-> IF upserts THEN id ELSE "",
                        calls |-> (IF enabled THEN <<"GetByID">> ELSE <<>>)
                                  \o (IF hit THEN <<>>
                                      ELSE <<"ScrapePackageWithRaw">>)
                                  \o (IF upserts THEN <<"Upsert">> ELSE <<>>),
                        requests |-> stats'.RequestsMade - stats.RequestsMade])
                /\ shadow' =
                       IF enabled THEN shadow
                       ELSE AfterUpsert(
                                IterResults(shadow, TRUE,
                                            [doc |-> NoDoc, err |-> "nil"], sr, path),
                                IF sr.err = "nil" THEN sur ELSE "skipped", id)
    /\ argIdx' = argIdx + 1
    /\ UNCHANGED <<args, store, cmdpc, TestMode, emitted>>
    /\ UNCHANGED poolVars
    /\ UNCHANGED libVars

\* After the loop: log the errors, log.Fatalf when nothing was scraped.
CmdFinish ==
    /\ cmdpc = "loop"
    /\ argIdx > Len(args)
    /\ cmdpc' = IF HardFailure(pkgs, scrapeErrors) THEN "fatal" ELSE "output"
    /\ UNCHANGED <<args, store, coll, argIdx, pkgs, rawHTMLs, scrapeErrors, log,
                   shadow, TestMode, stats, emitted>>
    /\ UNCHANGED poolVars
    /\ UNCHANGED libVars

\* for _, pkg := range pkgs { ... markdown.PackageToMarkdown(pkg) ... }: every
\* package of pkgs is rendered, in order.
CmdOutput ==
    /\ cmdpc = "output"
    /\ emitted' = pkgs
    /\ cmdpc' = "done"
    /\ UNCHANGED <<args, store, coll, argIdx, pkgs, rawHTMLs, scrapeErrors, log,
                   shadow, TestMode, stats>>
    /\ UNCHANGED poolVars
    /\ UNCHANGED libVars

NextCmd ==
    \/ CmdIter
    \/ CmdFinish
    \/ CmdOutput

SpecCmd == InitCmd /\ [][NextCmd]_vars

\* ------------------------------------------------ the store and a client
\* The documents a client passes to Upsert: two versions per id, the empty
\* id among the ids, a document whose Package is nil, and the nil document.
StoreDocs ==
    {[storedDoc(id) EXCEPT !.RawHTML = raw] :
         id \in Idents \cup {""}, raw \in {"v1", "v2"}}
        \cup {nilPackageDoc("a"), NoDoc}

\* A client calls the store on a collection nothing was written to yet.
InitStore ==
    /\ store \in {"nil", "disabled", "enabled"}
    /\ coll = [id \in Idents |-> NoDoc]
    /\ cmdpc = "calls"
    /\ args = <<>>
    /\ argIdx = 1
    /\ pkgs = <<>>
    /\ rawHTMLs = <<>>
    /\ scrapeErrors = <<>>
    /\ log = <<>>
    /\ shadow = NoResults
    /\ emitted = <<>>
    /\ TestMode = FALSE
    /\ stats = ZeroStats
    /\ PoolIdle
    /\ ParseIdle
    /\ ReduceIdle

\* doc, err := store.GetByID(ctx, id)
StoreGetByID ==
    /\ cmdpc = "calls"
    /\ Len(log) < MaxOps
    /\ \E id \in Idents :
       \E r \in GetByIDResults(store, coll, id, Len(log) + 2) :
           log' = Append(log, [op |-> "GetByID", id |-> id, doc |-> r.doc,
                               err |-> r.err, before |-> coll, after |-> coll])
    /\ UNCHANGED <<args, store, coll, cmdpc, argIdx, pkgs, rawHTMLs,
                   scrapeErrors, shadow, emitted, TestMode, stats>>
    /\ UNCHANGED poolVars
    /\ UNCHANGED libVars

\* err := store.Upsert(ctx, doc)
StoreUpsert ==
    /\ cmdpc = "calls"
    /\ Len(log) < MaxOps
    /\ \E doc \in StoreDocs :
       \E r \in UpsertResults(store, coll, doc) :
           /\ coll' = r.coll
           /\ log' = Append(log, [op |-> "Upsert", id |-> doc.ID, doc |-> doc,
                                  err |-> r.err, before |-> coll,
                                  after |-> r.coll])
    /\ UNCHANGED <<args, store, cmdpc, argIdx, pkgs, rawHTMLs, scrapeErrors,
                   shadow, emitted, TestMode, stats>>
    /\ UNCHANGED poolVars
    /\ UNCHANGED libVars

NextStore ==
    \/ StoreGetByID
    \/ StoreUpsert

SpecStore == InitStore /\ [][NextStore]_vars

\* ------------------------------------------------- Parser.ParsePackagePage
\* Selection.Text() of a selection of at most one element.
FirstText(sel) == IF sel = <<>> THEN "" ELSE sel[1]

\* Selection.AttrOr(attr, def) on a selection of attribute values.
AttrOr(sel, def) == IF sel = <<>> THEN def ELSE sel[1]

DigitChars == <<"0", "1", "2", "3", "4", "5", "6", "7", "8", "9">>

IsDigit(c) == \E i \in 1..Len(DigitChars) : DigitChars[i] = c

DigitVal(c) == (CHOOSE i \in 1..Len(DigitChars) : DigitChars[i] = c) - 1

\* strconv.Itoa on the block indices of the model.
RECURSIVE Itoa(_)
Itoa(n) ==
    IF n < 10 THEN DigitChars[n + 1]
    ELSE Itoa(n \div 10) \o DigitChars[(n % 10) + 1]

\* strings.TrimSpace on a string kept as a sequence of characters.
TrimSpaceChars(cs) ==
    LET black == {i \in 1..Len(cs) : cs[i] \notin {" ", "\n", "\t", "\r"}}
    IN  IF black = {} THEN <<>>
        ELSE SubSeq(cs, CHOOSE i \in black : \A j \in black : i <= j,
                        CHOOSE i \in black : \A j \in black : i >= j)

HasPrefix(cs, pfx) ==
    Len(cs) >= Len(pfx) /\ SubSeq(cs, 1, Len(pfx)) = pfx

TrimPrefix(cs, pfx) ==
    IF HasPrefix(cs, pfx) THEN SubSeq(cs, Len(pfx) + 1, Len(cs)) ELSE cs

KeepCommas(cs) == cs

\* strings.ReplaceAll(countStr, ",", "")
RemoveCommas(cs) == SelectSeq(cs, LAMBDA c : c # ",")

RECURSIVE DecimalValue(_)
DecimalValue(cs) ==
    IF cs = <<>> THEN 0
    ELSE 10 * DecimalValue(SubSeq(cs, 1, Len(cs) - 1)) + DigitVal(cs[Len(cs)])

\* strconv.Atoi: an optional sign and at least one decimal digit; anything
\* else is a syntax error.  The strings of the model are too short to
\* leave the range of int.
Atoi(cs) ==
    LET signed == cs # <<>> /\ cs[1] \in {"+", "-"}
        body == IF signed THEN Tail(cs) ELSE cs
        ok == body # <<>> /\ \A i \in 1..Len(body) : IsDigit(body[i])
    IN  [err |-> IF ok THEN "nil" ELSE "invalid syntax",
         num |-> IF ~ok THEN 0
                 ELSE IF signed /\ cs[1] = "-" THEN 0 - DecimalValue(body)
                 ELSE DecimalValue(body)]

ImportsPrefix == <<"I", "m", "p", "o", "r", "t", "s", ":", " ">>

ImportedByPrefix ==
    <<"I", "m", "p", "o", "r", "t", "e", "d", " ", "B", "y", ":", " ">>

ImportedbyPrefix ==
    <<"I", "m", "p", "o", "r", "t", "e", "d", " ", "b", "y", ":", " ">>

\* value := aria; if value == "" { value = strings.TrimSpace(el.Text()) }
LabelledValue(el) ==
    IF el.aria # <<>> THEN el.aria ELSE TrimSpaceChars(el.text)

\* The count after a prefix the value has; old is the field's value so far.
CountAfter(value, pfx, old) ==
    LET countStr == RemoveCommas(TrimSpaceChars(TrimPrefix(value, pfx)))
        r == Atoi(countStr)
    IN  IF r.err = "nil" THEN r.num ELSE old

\* pkg.Imports after the "Imports" block.
ParseImports(sel) ==
    IF sel = <<>> THEN 0
    ELSE LET value == LabelledValue(sel[1])
         IN  IF HasPrefix(value, ImportsPrefix)
             THEN CountAfter(value, ImportsPrefix, 0)
             ELSE 0

\* pkg.ImportedBy after the "Imported By" block: the first prefix that
\* matches decides (break).
ParseImportedBy(sel) ==
    IF sel = <<>> THEN 0
    ELSE LET value == LabelledValue(sel[1])
         IN  IF HasPrefix(value, ImportedByPrefix)
             THEN CountAfter(value, ImportedByPrefix, 0)
             ELSE IF HasPrefix(value, ImportedbyPrefix)
             THEN CountAfter(value, ImportedbyPrefix, 0)
             ELSE 0

\* s.NextAllFiltered("p"): the paragraphs among the siblings after child k.
NextAllFilteredP(ch, k) ==
    LET after == SelectSeq(SubSeq(ch, k + 1, Len(ch)), LAMBDA c : c.tag = "p")
    IN  [j \in 1..Len(after) |-> after[j].text]

\* The Each callback of the constants / variables section on the children
\* from k on; i counts the declaration blocks before child k.
RECURSIVE DeclsFrom(_, _, _, _)
DeclsFrom(ch, k, i, fallback) ==
    IF k > Len(ch) THEN <<>>
    ELSE IF ch[k].tag # "decl" THEN DeclsFrom(ch, k + 1, i, fallback)
    ELSE LET code == TrimSpace(FirstText(ch[k].pre))
             name == TrimSpace(AttrOr(ch[k].span, fallback \o Itoa(i + 1)))
             desc == TrimSpace(FirstText(NextAllFilteredP(ch, k)))
         IN  (IF code = "" THEN <<>>
              ELSE <<[Name |-> name, code |-> code, Description |-> desc]>>)
             \o DeclsFrom(ch, k + 1, i + 1, fallback)

ParseConstants(ch) ==
    LET ds == DeclsFrom(ch, 1, 0, "const-block-")
    IN  [j \in 1..Len(ds) |-> [Name |-> ds[j].Name, Value |-> ds[j].code,
                                Description |-> ds[j].Description]]

ParseVariables(ch) ==
    LET ds == DeclsFrom(ch, 1, 0, "var-block-")
    IN  [j \in 1..Len(ds) |-> [Name |-> ds[j].Name, Type |-> ds[j].code,
                                Description |-> ds[j].Description]]

\* The selection for field f inside a sequence of blocks, in document order.
RECURSIVE FindIn(_, _)
FindIn(blocks, f) ==
    IF blocks = <<>> THEN <<>>
    ELSE Head(blocks)[f] \o FindIn(Tail(blocks), f)

\* s.Find(f): the elements f of the subtree of block s in document order, the
\* block's own elements before those of the method blocks nested in it.
Find(s, f) == s[f] \o FindIn(s.methods, f)

\* header.AttrOr("id", "")
HeaderId(h4s) == IF h4s = <<>> THEN "" ELSE AttrOr(h4s[1].id, "")

\* The ".Documentation-sinceVersionVersion" elements of the given
\* ".Documentation-sinceVersion" elements.
RECURSIVE SinceVersions(_)
SinceVersions(sinces) ==
    IF sinces = <<>> THEN <<>>
    ELSE Head(sinces).ver \o SinceVersions(Tail(sinces))

\* Text() of the first ".Documentation-sinceVersion" element.
SinceText(sinces) ==
    IF sinces = <<>> THEN "" ELSE sinces[1].label \o FirstText(sinces[1].ver)

\* addedIn: the version token, else the entire sinceVersion text.
AddedIn(s) ==
    LET token == TrimSpace(FirstText(SinceVersions(Find(s, "since"))))
    IN  IF token = "" THEN TrimSpace(SinceText(Find(s, "since"))) ELSE token

Deprecated(s) == IF Len(Find(s, "dep")) > 0 THEN "deprecated" ELSE ""

\* The Each callback of ".Documentation-functions .Documentation-function".
RECURSIVE ParseFunctions(_)
ParseFunctions(blocks) ==
    IF blocks = <<>> THEN <<>>
    ELSE LET s == Head(blocks)
             id == HeaderId(Find(s, "h4"))
             sig == TrimSpace(FirstText(Find(s, "decl")))
         IN  (IF sig # ""
              THEN <<[Name |-> id, Signature |-> sig,
                      Description |-> TrimSpace(FirstText(Find(s, "p"))),
                      Deprecated |-> Deprecated(s), AddedIn |-> AddedIn(s)]>>
              ELSE <<>>)
             \o ParseFunctions(Tail(blocks))

\* The Each callback of s.Find(".Documentation-typeMethod").
RECURSIVE ParseMethods(_)
ParseMethods(blocks) ==
    IF blocks = <<>> THEN <<>>
    ELSE LET methodSel == Head(blocks)
             mh == Find(methodSel, "h4")
             mName == IF HeaderId(mh) = ""
                      THEN TrimSpace(IF mh = <<>> THEN "" ELSE mh[1].text)
                      ELSE HeaderId(mh)
             mSig == TrimSpace(FirstText(Find(methodSel, "decl")))
         IN  (IF mSig # "" \/ mName # ""
              THEN <<[Name |-> mName, Signature |-> mSig,
                      Description |-> TrimSpace(FirstText(Find(methodSel, "p"))),
                      Deprecated |-> Deprecated(methodSel),
                      AddedIn |-> AddedIn(methodSel)]>>
              ELSE <<>>)
             \o ParseMethods(Tail(blocks))

\* The Each callback of ".Documentation-types .Documentation-type".
RECURSIVE ParseTypes(_)
ParseTypes(blocks) ==
    IF blocks = <<>> THEN <<>>
    ELSE LET s == Head(blocks)
             id == HeaderId(Find(s, "h4"))
             def == TrimSpace(FirstText(Find(s, "decl")))
         IN  (IF id # "" /\ def # ""
              THEN <<[Name |-> id, Definition |-> def, Kind |-> "type",
                      Description |-> TrimSpace(FirstText(Find(s, "p"))),
                      Deprecated |-> Deprecated(s), AddedIn |-> AddedIn(s),
                      Methods |-> ParseMethods(s.methods)]>>
              ELSE <<>>)
             \o ParseTypes(Tail(blocks))

\* The fields the claims are about; IsLatest, Published, License, Repository,
\* Description and Readme are set from elements of their own and are read by
\* no other field.
ParsePackagePage(d) ==
    [called |-> TRUE,
     pkg |-> [Name |-> TrimSpace(FirstText(d.title)),
              ImportPath |-> TrimSpace(FirstText(d.breadcrumb)),
              Version |-> FirstText(d.version),
              Imports |-> ParseImports(d.imports),
              ImportedBy |-> ParseImportedBy(d.importedBy),
              Constants |-> ParseConstants(d.constants),
              Variables |-> ParseVariables(d.variables),
              Functions |-> ParseFunctions(d.functions),
              Types |-> ParseTypes(d.types)],
     err |-> "nil"]

\* ------------------------------------------------------------ the pages
\* The import path the page is scraped for.
PageImportPath == "a"

TitledPage ==
    [EmptyPage EXCEPT !.title = <<"cobra">>,
                      !.breadcrumb = <<"github.com/spf13/cobra">>]

\* Pages that differ in the header, and a response that is not HTML.
MetaPages ==
    {[EmptyPage EXCEPT !.title = t, !.breadcrumb = b, !.version = v] :
        t \in Opt({" ", "cobra"}),
        b \in Opt({" ", "github.com/spf13/cobra"}), v \in Opt({"v1.8.0"})}
    \cup {[EmptyPage EXCEPT !.isHTML = FALSE]}

\* Characters of the remainder of a labelled count.
NumChars == {"1", "7", ",", " ", "N", "-"}

NumPrefixes ==
    {ImportsPrefix, ImportedByPrefix, ImportedbyPrefix, <<>>,
     <<"I", "m", "p", "o", "r", "t", "s", ":">>}

\* "177,680" and "N/A"
NumScenarios == {<<"1", "7", "7", ",", "6", "8", "0">>, <<"N", "/", "A">>}

\* The page is a titled page with one count link.
NumPage(pg) ==
    \E pfx \in NumPrefixes, k \in 0..MaxChars, lead \in {<<>>, <<" ">>} :
        \E rest \in [1..k -> NumChars] \cup NumScenarios :
            \E e \in {[aria |-> <<>>, text |-> lead \o pfx \o rest \o lead],
                       [aria |-> pfx \o rest \o lead,
                        text |-> ImportsPrefix \o <<"1">>]} :
                \/ pg = [TitledPage EXCEPT !.imports = <<e>>]
                \/ pg = [TitledPage EXCEPT !.importedBy = <<e>>]

\* The children of a constants / variables section.
DeclChildren ==
    {[tag |-> "decl", pre |-> pre, span |-> span, text |-> ""] :
        pre \in Opt({" ", "A = 1"}), span \in Opt({"A"})}
    \cup {[tag |-> "p", pre |-> <<>>, span |-> <<>>, text |-> t] :
             t \in {"about A", "about B"}}

\* The page is a titled page with a constants or a variables section.
DeclPage(pg) ==
    \E k \in 0..MaxSiblings : \E ch \in [1..k -> DeclChildren] :
        \/ pg = [TitledPage EXCEPT !.constants = ch]
        \/ pg = [TitledPage EXCEPT !.variables = ch]

\* What a block says about itself: paragraph, since-version, deprecated tag.
Extras(who) ==
    {[p |-> <<>>, since |-> <<>>, dep |-> <<>>],
     [p |-> <<"about " \o who>>, since |-> <<>>, dep |-> <<>>],
     [p |-> <<>>, since |-> <<[label |-> "added in ", ver |-> <<"v1." \o who>>]>>,
      dep |-> <<"Deprecated">>],
     [p |-> <<>>, since |-> <<[label |-> "added in go1." \o who, ver |-> <<>>]>>,
      dep |-> <<>>]}

Block(h4, decl, x, methods) ==
    [h4 |-> h4, decl |-> decl, p |-> x.p, since |-> x.since, dep |-> x.dep,
     methods |-> methods]

\* A heading: absent, without id, with id.
Headings(who) ==
    {<<>>, <<[id |-> <<>>, text |-> who]>>, <<[id |-> <<who>>, text |-> who]>>}

FuncBlocks ==
    {Block(h, d, x, <<>>) :
        h \in Headings("F"), d \in Opt({" ", "func F()"}), x \in Extras("F")}

TypeBlocks ==
    {Block(h, d, x, <<>>) :
        h \in Headings("T"), d \in Opt({" ", "type T int"}), x \in Extras("T")}

MethodBlocks ==
    {Block(h, d, x, <<>>) :
        h \in Headings("T.M"), d \in Opt({"func (T) M()"}), x \in Extras("M")}

\* The page is a titled page with function blocks or with type blocks.
BlockPage(pg) ==
    \E k \in 0..MaxBlocks :
        \/ \E bs \in [1..k -> FuncBlocks] :
               pg = [TitledPage EXCEPT !.functions = bs]
        \/ \E bs \in [1..k -> TypeBlocks] :
               pg = [TitledPage EXCEPT !.types = bs]

\* The page is a titled page with one type block that has method blocks.
MethodPage(pg) ==
    \E h \in Headings("T") \ {<<>>}, d \in Opt({"type T int"}),
       x \in Extras("T"), k \in 1..MaxMethods :
        \E ms \in [1..k -> MethodBlocks] :
            pg = [TitledPage EXCEPT !.types = <<Block(h, d, x, ms)>>]

\* ------------------------------------- ScrapePackageWithRaw on one page
InitParse ==
    /\ \/ page \in MetaPages
       \/ NumPage(page)
       \/ DeclPage(page)
       \/ BlockPage(page)
       \/ MethodPage(page)
    /\ ppc = "visit"
    /\ parsed = NoParse
    /\ scraped = NotScraped
    /\ TestMode = FALSE
    /\ stats = ZeroStats
    /\ PoolIdle
    /\ CmdIdle
    /\ ReduceIdle

\* c.OnHTML("html", ...): the callback runs ParsePackagePage.
OnHTML ==
    /\ ppc = "visit"
    /\ page.isHTML
    /\ parsed' = ParsePackagePage(page)
    /\ ppc' = "wait"
    /\ UNCHANGED <<page, scraped, TestMode, stats, poolVars, cmdVars, reduceVars>>

\* The response has no html element to call back for.
NoHTML ==
    /\ ppc = "visit"
    /\ ~page.isHTML
    /\ ppc' = "wait"
    /\ UNCHANGED <<page, parsed, scraped, TestMode, stats, poolVars, cmdVars, reduceVars>>

\* What ScrapePackageWithRaw returns after c.Wait().
ScrapedFrom(r, importPath) ==
    IF r.called /\ r.err # "nil"
    THEN [isNil |-> TRUE, pkg |-> ZeroPackage,
          err |-> "failed to parse package page"]
    ELSE IF ~r.called
    THEN [isNil |-> TRUE, pkg |-> ZeroPackage, err |-> "no package data found"]
    ELSE [isNil |-> FALSE, pkg |-> [r.pkg EXCEPT !.ImportPath = importPath],
          err |-> "nil"]

PageReturn ==
    /\ ppc = "wait"
    /\ scraped' = ScrapedFrom(parsed, PageImportPath)
    /\ stats' = IF scraped'.err = "nil" THEN CountResponse(stats, "ok") ELSE stats
    /\ ppc' = "returned"
    /\ UNCHANGED <<page, parsed, TestMode, poolVars, cmdVars, reduceVars>>

NextParse ==
    \/ OnHTML
    \/ NoHTML
    \/ PageReturn

SpecParse == InitParse /\ [][NextParse]_vars

\* ------------------------------------------------- ConvertHTMLToMarkdown
\* Strings are sequences of characters.
\* The character ` (a TLA+ string cannot hold it).
Backtick == "BACKTICK"

WhiteSpace == {" ", "\n", "\t", "\r", "\f"}

UpperChars ==
    <<"A", "B", "C", "D", "E", "F", "G", "H", "I", "J", "K", "L", "M",
      "N", "O", "P", "Q", "R", "S", "T", "U", "V", "W", "X", "Y", "Z">>

LowerChars ==
    <<"a", "b", "c", "d", "e", "f", "g", "h", "i", "j", "k", "l", "m",
      "n", "o", "p", "q", "r", "s", "t", "u", "v", "w", "x", "y", "z">>

\* strings.ToLower, and the case folding of the (?i) flag, on one character.
Lower(c) ==
    IF \E i \in 1..Len(UpperChars) : UpperChars[i] = c
    THEN LowerChars[CHOOSE i \in 1..Len(UpperChars) : UpperChars[i] = c]
    ELSE c

ToLower(s) == [i \in 1..Len(s) |-> Lower(s[i])]

MinOf(S) == CHOOSE x \in S : \A y \in S : x <= y

MaxOf(S) == CHOOSE x \in S : \A y \in S : x >= y

\* pat occurs in s at position i.
MatchAt(s, i, pat) ==
    /\ i >= 1
    /\ i + Len(pat) - 1 <= Len(s)
    /\ \A j \in 1..Len(pat) : s[i + j - 1] = pat[j]

\* The same under (?i); pat is in lower case.
MatchFold(s, i, pat) == MatchAt(ToLower(s), i, pat)

\* strings.Index from position lo on: the first position of pat, 0 if none.
IndexFrom(s, pat, lo) ==
    LET hits == {i \in lo..Len(s) : MatchAt(s, i, pat)}
    IN  IF hits = {} THEN 0 ELSE MinOf(hits)

IndexFold(s, pat, lo) == IndexFrom(ToLower(s), pat, lo)

\* strings.Contains
Contains(s, pat) == IndexFrom(s, pat, 1) # 0

\* strings.ReplaceAll for a non-empty old string: the non-overlapping
\* occurrences from left to right.
RECURSIVE ReplaceFrom(_, _, _, _)
ReplaceFrom(s, old, new, lo) ==
    LET i == IndexFrom(s, old, lo)
    IN  IF i = 0 THEN SubSeq(s, lo, Len(s))
        ELSE SubSeq(s, lo, i - 1) \o new \o ReplaceFrom(s, old, new, i + Len(old))

ReplaceAll(s, old, new) == ReplaceFrom(s, old, new, 1)

\* The permutations of a finite set: the orders a range over a map can take.
Orders(S) ==
    {f \in [1..Cardinality(S) -> S] :
        \A i, j \in 1..Cardinality(S) : i # j => f[i] # f[j]}

\* for k, v := range table { s = strings.ReplaceAll(s, k, v) } in one order.
RECURSIVE ApplyInOrder(_, _)
ApplyInOrder(s, order) ==
    IF order = <<>> THEN s
    ELSE ApplyInOrder(ReplaceAll(s, Head(order).from, Head(order).to),
                      Tail(order))

\* The map repl of unescapeCommonEntities.
EntityTable ==
  {
    [from |-> <<"&", "q", "u", "o", "t", ";">>,
     to |-> <<"\"">>],
    [from |-> <<"&", "#", "3", "4", ";">>,
     to |-> <<"\"">>],
    [from |-> <<"&", "a", "p", "o", "s", ";">>,
     to |-> <<"'">>],
    [from |-> <<"&", "#", "3", "9", ";">>,
     to |-> <<"'">>],
    [from |-> <<"&", "a", "m", "p", ";">>,
     to |-> <<"&">>],
    [from |-> <<"&", "l", "t", ";">>,
     to |-> <<"<">>],
    [from |-> <<"&", "g", "t", ";">>,
     to |-> <<">">>],
    [from |-> <<"&", "n", "b", "s", "p", ";">>,
     to |-> <<" ">>]
  }

\* The map replacements of ConvertHTMLToMarkdown.
BlockTable ==
  {
    [from |-> <<"<", "p", ">">>,
     to |-> <<"\n">>],
    [from |-> <<"<", "/", "p", ">">>,
     to |-> <<"\n", "\n">>],
    [from |-> <<"<", "b", "r", ">">>,
     to |-> <<"\n">>],
    [from |-> <<"<", "b", "r", "/", ">">>,
     to |-> <<"\n">>],
    [from |-> <<"<", "s", "t", "r", "o", "n", "g", ">">>,
     to |-> <<"*", "*">>],
    [from |-> <<"<", "/", "s", "t", "r", "o", "n", "g", ">">>,
     to |-> <<"*", "*">>],
    [from |-> <<"<", "b", ">">>,
     to |-> <<"*", "*">>],
    [from |-> <<"<", "/", "b", ">">>,
     to |-> <<"*", "*">>],
    [from |-> <<"<", "e", "m", ">">>,
     to |-> <<"*">>],
    [from |-> <<"<", "/", "e", "m", ">">>,
     to |-> <<"*">>],
    [from |-> <<"<", "i", ">">>,
     to |-> <<"*">>],
    [from |-> <<"<", "/", "i", ">">>,
     to |-> <<"*">>],
    [from |-> <<"<", "u", "l", ">">>,
     to |-> <<"\n">>],
    [from |-> <<"<", "/", "u", "l", ">">>,
     to |-> <<"\n">>],
    [from |-> <<"<", "o", "l", ">">>,
     to |-> <<"\n">>],
    [from |-> <<"<", "/", "o", "l", ">">>,
     to |-> <<"\n">>],
    [from |-> <<"<", "l", "i", ">">>,
     to |-> <<"-", " ">>],
    [from |-> <<"<", "/", "l", "i", ">">>,
     to |-> <<"\n">>],
    [from |-> <<"<", "b", "l", "o", "c", "k", "q", "u", "o", "t", "e", ">">>,
     to |-> <<">", " ">>],
    [from |-> <<"<", "/", "b", "l", "o", "c", "k", "q", "u", "o", "t", "e", ">">>,
     to |-> <<"\n">>],
    [from |-> <<"<", "h", "r", ">">>,
     to |-> <<"\n", "-", "-", "-", "\n">>],
    [from |-> <<"<", "h", "r", "/", ">">>,
     to |-> <<"\n", "-", "-", "-", "\n">>]
  }

\* The entries of the entity map that can come to match while the map is
\* ranged over s.  No replacement text is empty, so characters apart stay
\* apart, and the only character of a key that a replacement text has is the
\* "&" of "&amp;": a key matches at some point only if its part after the "&"
\* is in s.  The other entries replace nothing wherever they fall in the order.
LiveEntities(s) == {e \in EntityTable : Contains(s, Tail(e.from))}

\* The same for the block map: only ">" (of "> ") is in a replacement text,
\* so a key matches at some point only if its part before the ">" is in s.
LiveBlocks(s) ==
    {e \in BlockTable : Contains(s, SubSeq(e.from, 1, Len(e.from) - 1))}

\* The results unescapeCommonEntities(s) can have, one per order of the range.
UnescapeResults(s) == {ApplyInOrder(s, o) : o \in Orders(LiveEntities(s))}

\* The results of the range over replacements.
BlockResults(s) == {ApplyInOrder(s, o) : o \in Orders(LiveBlocks(s))}

KeepAllTags(s) == s

\* stripAllTags: remove "<" ... ">" spans until no "<" is followed by a ">".
RECURSIVE stripAllTags(_)
stripAllTags(s) ==
    LET start == IndexFrom(s, <<"<">>, 1)
        end == IF start = 0 THEN 0 ELSE IndexFrom(s, <<">">>, start)
    IN  IF start = 0 \/ end = 0 THEN s
        ELSE stripAllTags(SubSeq(s, 1, start - 1) \o SubSeq(s, end + 1, Len(s)))

\* for strings.Contains(html, "\n\n\n") { html = ReplaceAll(...) }
RECURSIVE CollapseBlankLines(_)
CollapseBlankLines(s) ==
    IF Contains(s, <<"\n", "\n", "\n">>)
    THEN CollapseBlankLines(ReplaceAll(s, <<"\n", "\n", "\n">>, <<"\n", "\n">>))
    ELSE s

\* Stage 8: a lone backtick line becomes a closing fence.
FixFences(s) ==
    ReplaceAll(ReplaceAll(s, <<"\n", Backtick, "\n">>, <<"\n", Backtick, Backtick, Backtick, "\n">>),
               <<"\n", Backtick, "\n", "\n">>, <<"\n", Backtick, Backtick, Backtick, "\n", "\n">>)

\* \s* from position lo: the first position that holds no white space.
SkipSpace(s, lo) ==
    LET black == {i \in lo..Len(s) : s[i] \notin WhiteSpace}
    IN  IF black = {} THEN Len(s) + 1 ELSE MinOf(black)

\* preCodeRe matched at position i:
\* (?is)<pre>\s*<code([^>]*)>(.*?)</code>\s*</pre>
PreCodeAt(s, i) ==
    LET c0 == SkipSpace(s, i + 5)
        gt == IndexFrom(s, <<">">>, c0 + 5)
        closes == {c \in (gt + 1)..Len(s) :
                      /\ MatchFold(s, c, <<"<", "/", "c", "o", "d", "e", ">">>)
                      /\ MatchFold(s, SkipSpace(s, c + 7), <<"<", "/", "p", "r", "e", ">">>)}
        ok == /\ MatchFold(s, i, <<"<", "p", "r", "e", ">">>)
              /\ MatchFold(s, c0, <<"<", "c", "o", "d", "e">>)
              /\ gt # 0
              /\ closes # {}
    IN  [ok |-> ok,
         end |-> IF ok THEN SkipSpace(s, MinOf(closes) + 7) + 5 ELSE 0,
         attrs |-> IF ok THEN SubSeq(s, c0 + 5, gt - 1) ELSE <<>>,
         code |-> IF ok THEN SubSeq(s, gt + 1, MinOf(closes) - 1) ELSE <<>>]

\* The first match of preCodeRe from position lo on, 0 if none.
NextPreCode(s, lo) ==
    LET hits == {i \in lo..Len(s) : PreCodeAt(s, i).ok}
    IN  IF hits = {} THEN 0 ELSE MinOf(hits)

\* The replacement of one fenced block, code being the unescaped code.
Fence(attrs, code) ==
    (IF Contains(ToLower(attrs), <<"l", "a", "n", "g", "u", "a", "g", "e", "-", "g", "o">>)
     THEN <<Backtick, Backtick, Backtick, "g", "o", "\n">> ELSE <<Backtick, Backtick, Backtick, "\n">>)
    \o code \o <<"\n", Backtick, Backtick, Backtick, "\n", "\n">>

\* The heading expression of a level matched at position i:
\* (?is)<hN[^>]*>(.*?)</hN>
HeadingAt(s, i, lit) ==
    LET gt == IndexFrom(s, <<">">>, i + 3)
        c == IF gt = 0 THEN 0
             ELSE IndexFold(s, <<"<", "/", "h", lit, ">">>, gt + 1)
        ok == MatchFold(s, i, <<"<", "h", lit>>) /\ gt # 0 /\ c # 0
    IN  [ok |-> ok, end |-> c + 4,
         g1 |-> IF ok THEN SubSeq(s, gt + 1, c - 1) ELSE <<>>]

\* tag.ReplaceAllString(html, prefix+`$1`+"\n\n") from position lo on.
RECURSIVE ReplaceHeadings(_, _, _)
ReplaceHeadings(s, lo, level) ==
    LET lit == DigitChars[level + 1]
        hits == {i \in lo..Len(s) : HeadingAt(s, i, lit).ok}
    IN  IF hits = {} THEN SubSeq(s, lo, Len(s))
        ELSE LET i == MinOf(hits)
                 m == HeadingAt(s, i, lit)
             IN  SubSeq(s, lo, i - 1) \o [j \in 1..level |-> "#"] \o <<" ">>
                 \o m.g1 \o <<"\n", "\n">>
                 \o ReplaceHeadings(s, m.end + 1, level)

\* for level := 1; level <= 6; level++
RECURSIVE HeadingsFrom(_, _)
HeadingsFrom(s, level) ==
    IF level > 6 THEN s
    ELSE HeadingsFrom(ReplaceHeadings(s, 1, level), level + 1)

\* [^>]*\sattr=" from position lo: the positions of the white space.
AttrCands(s, lo, attr) ==
    {k \in lo..Len(s) : /\ \A j \in lo..(k - 1) : s[j] # ">"
                        /\ s[k] \in WhiteSpace
                        /\ MatchFold(s, k + 1, attr)}

\* attr="value" with the white space at k: the closing quote, 0 if the value
\* does not match ([^"]+ needs a character, [^"]* does not).
ValueEnd(s, k, attr, needed) ==
    LET v == k + 1 + Len(attr)
        q == IndexFrom(s, <<"\"">>, v)
    IN  IF q = 0 \/ (needed /\ q = v) THEN 0 ELSE q

\* anchorRe with the white space before href at k:
\* (?is)<a[^>]*\shref="([^"]+)"[^>]*>(.*?)</a>
AnchorWith(s, i, k) ==
    LET q == ValueEnd(s, k, <<"h", "r", "e", "f", "=", "\"">>, TRUE)
        gt == IF q = 0 THEN 0 ELSE IndexFrom(s, <<">">>, q + 1)
        c == IF gt = 0 THEN 0 ELSE IndexFold(s, <<"<", "/", "a", ">">>, gt + 1)
        ok == q # 0 /\ gt # 0 /\ c # 0
    IN  [ok |-> ok, end |-> c + 3,
         g1 |-> IF ok THEN SubSeq(s, k + 7, q - 1) ELSE <<>>,
         g2 |-> IF ok THEN SubSeq(s, gt + 1, c - 1) ELSE <<>>]

\* anchorRe matched at position i: the greedy [^>]* takes the last white
\* space with which the rest matches.
AnchorAt(s, i) ==
    LET ks == {k \in AttrCands(s, i + 2, <<"h", "r", "e", "f", "=", "\"">>) : AnchorWith(s, i, k).ok}
    IN  IF MatchFold(s, i, <<"<", "a">>) /\ ks # {}
        THEN AnchorWith(s, i, MaxOf(ks))
        ELSE [ok |-> FALSE, end |-> 0, g1 |-> <<>>, g2 |-> <<>>]

\* anchorRe.ReplaceAllString(html, `[$2]($1)`) from position lo on.
RECURSIVE ReplaceAnchors(_, _)
ReplaceAnchors(s, lo) ==
    LET hits == {i \in lo..Len(s) : AnchorAt(s, i).ok}
    IN  IF hits = {} THEN SubSeq(s, lo, Len(s))
        ELSE LET i == MinOf(hits)
                 m == AnchorAt(s, i)
             IN  SubSeq(s, lo, i - 1) \o <<"[">> \o m.g2 \o <<"]", "(">>
                 \o m.g1 \o <<")">> \o ReplaceAnchors(s, m.end + 1)

\* An image expression with two attributes, the white space before them at
\* k1 and k2: <img[^>]*\sA="(..)"[^>]*\sB="(..)"[^>]*/?>
ImgWith(s, k1, attr1, needed1, k2, attr2, needed2) ==
    LET q1 == ValueEnd(s, k1, attr1, needed1)
        q2 == ValueEnd(s, k2, attr2, needed2)
        gt == IF q2 = 0 THEN 0 ELSE IndexFrom(s, <<">">>, q2 + 1)
        ok == q1 # 0 /\ q2 # 0 /\ gt # 0
    IN  [ok |-> ok, end |-> gt,
         g1 |-> IF ok THEN SubSeq(s, k1 + 1 + Len(attr1), q1 - 1) ELSE <<>>,
         g2 |-> IF ok THEN SubSeq(s, k2 + 1 + Len(attr2), q2 - 1) ELSE <<>>]

\* The second attribute's white space positions, given the first at k1.
SecondCands(s, k1, attr1, needed1, attr2, needed2) ==
    LET q1 == ValueEnd(s, k1, attr1, needed1)
    IN  IF q1 = 0 THEN {}
        ELSE {k2 \in AttrCands(s, q1 + 1, attr2) :
                 ImgWith(s, k1, attr1, needed1, k2, attr2, needed2).ok}

\* The expression matched at position i: each greedy [^>]* takes the last
\* white space with which the rest matches, the first one first.
ImgAt(s, i, attr1, needed1, attr2, needed2) ==
    LET k1s == {k1 \in AttrCands(s, i + 4, attr1) :
                   SecondCands(s, k1, attr1, needed1, attr2, needed2) # {}}
    IN  IF MatchFold(s, i, <<"<", "i", "m", "g">>) /\ k1s # {}
        THEN ImgWith(s, MaxOf(k1s), attr1, needed1,
                     MaxOf(SecondCands(s, MaxOf(k1s), attr1, needed1,
                                       attr2, needed2)),
                     attr2, needed2)
        ELSE [ok |-> FALSE, end |-> 0, g1 |-> <<>>, g2 |-> <<>>]

\* ReplaceAllString of a two-attribute image expression; altFirst tells which
\* group is the alt text.
RECURSIVE ReplaceImgs(_, _, _)
ReplaceImgs(s, lo, altFirst) ==
    LET attr1 == IF altFirst THEN <<"a", "l", "t", "=", "\"">> ELSE <<"s", "r", "c", "=", "\"">>
        attr2 == IF altFirst THEN <<"s", "r", "c", "=", "\"">> ELSE <<"a", "l", "t", "=", "\"">>
        hits == {i \in lo..Len(s) :
                    ImgAt(s, i, attr1, ~altFirst, attr2, altFirst).ok}
    IN  IF hits = {} THEN SubSeq(s, lo, Len(s))
        ELSE LET i == MinOf(hits)
                 m == ImgAt(s, i, attr1, ~altFirst, attr2, altFirst)
             IN  SubSeq(s, lo, i - 1) \o <<"!", "[">>
                 \o (IF altFirst THEN m.g1 ELSE m.g2) \o <<"]", "(">>
                 \o (IF altFirst THEN m.g2 ELSE m.g1) \o <<")">>
                 \o ReplaceImgs(s, m.end + 1, altFirst)

\* imgSrcOnlyRe matched at position i: (?is)<img[^>]*\ssrc="([^"]+)"[^>]*/?>
ImgSrcAt(s, i) ==
    LET ends(k) == IF ValueEnd(s, k, <<"s", "r", "c", "=", "\"">>, TRUE) = 0 THEN 0
                   ELSE IndexFrom(s, <<">">>, ValueEnd(s, k, <<"s", "r", "c", "=", "\"">>, TRUE) + 1)
        ks == {k \in AttrCands(s, i + 4, <<"s", "r", "c", "=", "\"">>) : ends(k) # 0}
        ok == MatchFold(s, i, <<"<", "i", "m", "g">>) /\ ks # {}
    IN  [ok |-> ok, end |-> IF ok THEN ends(MaxOf(ks)) ELSE 0,
         g1 |-> IF ok THEN SubSeq(s, MaxOf(ks) + 6,
                                  ValueEnd(s, MaxOf(ks), <<"s", "r", "c", "=", "\"">>, TRUE) - 1)
                ELSE <<>>]

\* imgSrcOnlyRe.ReplaceAllString(html, `![]($1)`) from position lo on.
RECURSIVE ReplaceImgSrc(_, _)
ReplaceImgSrc(s, lo) ==
    LET hits == {i \in lo..Len(s) : ImgSrcAt(s, i).ok}
    IN  IF hits = {} THEN SubSeq(s, lo, Len(s))
        ELSE LET i == MinOf(hits)
                 m == ImgSrcAt(s, i)
             IN  SubSeq(s, lo, i - 1) \o <<"!", "[", "]", "(">> \o m.g1
                 \o <<")">> \o ReplaceImgSrc(s, m.end + 1)

\* Stage 4: alt then src, src then alt, src only.
Images(s) == ReplaceImgSrc(ReplaceImgs(ReplaceImgs(s, 1, TRUE), 1, FALSE), 1)

\* inlineCodeRe.ReplaceAllString(html, "`$1`"): (?is)<code>(.*?)</code>
RECURSIVE ReplaceInlineCode(_, _)
ReplaceInlineCode(s, lo) ==
    LET close(i) == IndexFold(s, <<"<", "/", "c", "o", "d", "e", ">">>, i + 6)
        hits == {i \in lo..Len(s) : MatchFold(s, i, <<"<", "c", "o", "d", "e", ">">>) /\ close(i) # 0}
    IN  IF hits = {} THEN SubSeq(s, lo, Len(s))
        ELSE LET i == MinOf(hits)
             IN  SubSeq(s, lo, i - 1) \o <<Backtick>>
                 \o SubSeq(s, i + 6, close(i) - 1) \o <<Backtick>>
                 \o ReplaceInlineCode(s, close(i) + 7)

\* ------------------------------------------- the inputs of the converter
\* Characters of the texts explored exhaustively.
TextChars == {"a", " ", "\n", "<", ">", "&"}

\* Fragments with the markup of each stage.
Fragments ==
  {
    <<"<", "h", "2", ">", "T", "i", "t", "l", "e", "<", "/", "h", "2", ">",
      "<", "p", ">", "B", "o", "d", "y", " ", "&", "a", "m", "p", ";", " ",
      "m", "o", "r", "e", "<", "/", "p", ">">>,
    <<"&", "a", "m", "p", ";", "l", "t", ";">>,
    <<"&", "a", "m", "p", ";", "a", "m", "p", ";", "l", "t", ";">>,
    <<"a", "\n", "\n", "\n", "\n", "b">>,
    <<" ", "a", "\n">>,
    <<"a", "\r", "\n", "b">>,
    <<"a", "\n", Backtick, "\n", "b">>,
    <<"<", "p", "r", "e", ">", " ", "<", "c", "o", "d", "e", " ", "c", "l",
      "a", "s", "s", "=", "\"", "l", "a", "n", "g", "u", "a", "g", "e",
      "-", "g", "o", "\"", ">", "x", " ", "&", "l", "t", ";", " ", "y",
      "<", "/", "c", "o", "d", "e", ">", "\n", "<", "/", "p", "r", "e", ">">>,
    <<"<", "p", "r", "e", ">", "<", "c", "o", "d", "e", ">", "a", "<", "/",
      "c", "o", "d", "e", ">", "<", "/", "p", "r", "e", ">", "<", "P", "R",
      "E", ">", "<", "C", "O", "D", "E", ">", "&", "a", "m", "p", ";", "a",
      "m", "p", ";", "<", "/", "C", "O", "D", "E", ">", "<", "/", "P", "R",
      "E", ">">>,
    <<"<", "a", " ", "h", "r", "e", "f", "=", "\"", "u", "\"", ">", "t",
      "<", "/", "a", ">">>,
    <<"<", "a", " ", "i", "d", "=", "\"", "i", "\"", " ", "h", "r", "e",
      "f", "=", "\"", "u", ">", "v", "\"", " ", "x", ">", "t", "<", "/",
      "A", ">", "b">>,
    <<"<", "i", "m", "g", " ", "a", "l", "t", "=", "\"", "a", "\"", " ",
      "s", "r", "c", "=", "\"", "s", "\"", "/", ">">>,
    <<"<", "i", "m", "g", " ", "s", "r", "c", "=", "\"", "s", "\"", " ",
      "a", "l", "t", "=", "\"", "\"", ">">>,
    <<"<", "i", "m", "g", " ", "s", "r", "c", "=", "\"", "s", "\"", ">">>,
    <<"a", "<", "c", "o", "d", "e", ">", "x", "<", "/", "c", "o", "d", "e",
      ">">>,
    <<"<", "H", "1", " ", "i", "d", "=", "\"", "x", "\"", ">", "T", "<",
      "/", "H", "1", ">">>,
    <<"a", "<", "p", "<", "b", "l", "o", "c", "k", "q", "u", "o", "t", "e",
      ">", "x">>,
    <<"<", "b", ">", "x", "<", "/", "b", ">", "<", "b", "r", "/", ">", "y">>,
    <<"<", "l", "i", ">", "a", "<", "/", "l", "i", ">", "\n", Backtick, "\n",
      "\n">>
  }

\* strings.TrimSpace(html) == ""
IsBlankNever(s) == FALSE

IsBlank(s) == TrimSpaceChars(s) = <<>>

InitReduce ==
    /\ \/ \E k \in 0..MaxText : input \in [1..k -> TextChars]
       \/ input \in Fragments
    /\ html = input
    /\ rpc = "start"
    /\ fenceAt = 1
    /\ TestMode = FALSE
    /\ stats = ZeroStats
    /\ PoolIdle
    /\ CmdIdle
    /\ ParseIdle

\* A stage that maps html to one of the texts in results and goes on at next.
Stage(at, results, next) ==
    /\ rpc = at
    /\ html' \in results
    /\ rpc' = next
    /\ UNCHANGED <<input, fenceAt, TestMode, stats, poolVars, cmdVars, parseVars>>

\* if strings.TrimSpace(html) == "" { return html }
StageBlank ==
    /\ IsBlank(html)
    /\ Stage("start", {html}, "done")

\* html = strings.ReplaceAll(html, "\r\n", "\n")
StageNormalize ==
    /\ ~IsBlank(html)
    /\ Stage("start", {ReplaceAll(html, <<"\r", "\n">>, <<"\n">>)}, "unescape")

\* html = unescapeCommonEntities(html)
StageUnescape == Stage("unescape", UnescapeResults(html), "fenced")

\* 1) One match of preCodeRe.ReplaceAllStringFunc: the code is unescaped by a
\* call of its own, the scan goes on behind the replacement.
StageFence ==
    /\ rpc = "fenced"
    /\ NextPreCode(html, fenceAt) # 0
    /\ LET i == NextPreCode(html, fenceAt)
           m == PreCodeAt(html, i)
       IN  \E code \in UnescapeResults(m.code) :
               /\ html' = SubSeq(html, 1, i - 1) \o Fence(m.attrs, code)
                              \o SubSeq(html, m.end + 1, Len(html))
               /\ fenceAt' = i + Len(Fence(m.attrs, code))
    /\ UNCHANGED <<input, rpc, TestMode, stats, poolVars, cmdVars, parseVars>>

\* No further match of preCodeRe.
StageFenceEnd ==
    /\ rpc = "fenced"
    /\ NextPreCode(html, fenceAt) = 0
    /\ rpc' = "headings"
    /\ fenceAt' = 1
    /\ UNCHANGED <<input, html, TestMode, stats, poolVars, cmdVars, parseVars>>

\* 2) Headings h1..h6.
StageHeadings == Stage("headings", {HeadingsFrom(html, 1)}, "anchors")

\* 3) Anchors.
StageAnchors == Stage("anchors", {ReplaceAnchors(html, 1)}, "images")

\* 4) Images.
StageImages == Stage("images", {Images(html)}, "inline")

\* 5) Inline code.
StageInlineCode == Stage("inline", {ReplaceInlineCode(html, 1)}, "blocks")

\* 6) The block map, ranged over in any order.
StageBlocks == Stage("blocks", BlockResults(html), "strip")

\* 7) html = stripAllTags(html)
StageStrip == Stage("strip", {stripAllTags(html)}, "fences")

\* 8) Lone backtick lines.
StageFixFences == Stage("fences", {FixFences(html)}, "reunescape")

\* 9) html = unescapeCommonEntities(html)
StageReunescape == Stage("reunescape", UnescapeResults(html), "cleanup")

\* 9) the "\n\n\n" loop and strings.TrimSpace; return html
StageCleanup ==
    Stage("cleanup", {TrimSpaceChars(CollapseBlankLines(html))}, "done")

NextReduce ==
    \/ StageBlank
    \/ StageNormalize
    \/ StageUnescape
    \/ StageFence
    \/ StageFenceEnd
    \/ StageHeadings
    \/ StageAnchors
    \/ StageImages
    \/ StageInlineCode
    \/ StageBlocks
    \/ StageStrip
    \/ StageFixFences
    \/ StageReunescape
    \/ StageCleanup

SpecReduce == InitReduce /\ [][NextReduce]_vars

\* ------------------------------------------------ ScrapePackages: properties
InFlight == {t \in Tasks : st[t] \in Holding}

Succeeded == {t \in Tasks : outcome[t] \in {"ok", "mock"}}

Failed == {t \in Tasks : outcome[t] \in FailOutcomes}

Abandoned == {t \in Tasks : outcome[t] = "abandoned"}

Ptrs(ps) == {ps[k].ptr : k \in 1..Len(ps)}

ReturnedNonEmpty == mainpc = "returned" /\ Len(importPaths) > 0

\* C1: in parallel mode the number of tasks between acquiring the semaphore
\* slot and releasing it never exceeds config.MaxConcurrency.
C1_ConcurrencyBound ==
    ~TestMode =>
        /\ Cardinality(InFlight) <= MaxConcurrency
        /\ semaphore = Cardinality(InFlight)

\* C1 witness: the gate is full with a task inside ScrapePackage and another
\* task still waiting for a slot.
C1_Witness ==
    /\ ~TestMode
    /\ MaxConcurrency >= 1
    /\ Cardinality(InFlight) = MaxConcurrency
    /\ \E t \in Tasks : st[t] \in InScrape
    /\ \E t \in Tasks : st[t] = "waiting"

\* C2 as stated: on return the number of records is len(importPaths) minus
\* the number of collected errors, cancellation included; with no error the
\* error is nil and len(importPaths) records are returned.
C2_Original ==
    ReturnedNonEmpty =>
        /\ Len(ret.pkgs) = Len(importPaths) - Len(errors)
        /\ (Len(errors) = 0 =>
               ret.err = NoError /\ Len(ret.pkgs) = Len(importPaths))

\* C2 amended: on return the number of records is len(importPaths) minus the
\* number of collected errors minus the number of tasks that abandoned on
\* cancellation; with no error and no abandoned task the error is nil and
\* len(importPaths) records are returned; a task abandons only once the
\* context is done.
C2_RecordCount ==
    /\ Abandoned # {} => ctxDone
    /\ ReturnedNonEmpty =>
        /\ Len(errors) = Cardinality(Failed)
        /\ Len(ret.pkgs) =
               Len(importPaths) - Len(errors) - Cardinality(Abandoned)
        /\ (Len(errors) = 0 /\ Abandoned = {} =>
               ret.err = NoError /\ Len(ret.pkgs) = Len(importPaths))

\* C2 witness: a parallel run returned one record while another task
\* abandoned on cancellation and nothing failed.
C2_Witness ==
    /\ ReturnedNonEmpty
    /\ ~TestMode
    /\ Len(importPaths) = 2
    /\ Len(ret.pkgs) = 1
    /\ Len(errors) = 0
    /\ Cardinality(Abandoned) = 1

\* C3: a failure does not stop the other identifiers: unless the context is
\* cancelled every identifier is scraped, every successfully produced record
\* is returned, and with a failure the returned error is the first one
\* recorded, naming a failed identifier (the first failed one in input order
\* in sequential mode).
C3_PartialFailure ==
    ReturnedNonEmpty =>
        /\ ~ctxDone => Succeeded \cup Failed = Tasks
        /\ TestMode => Succeeded \cup Failed = Tasks
        /\ ret.pkgs = packages
        /\ Ptrs(ret.pkgs) = Succeeded
        /\ \A k \in 1..Len(ret.pkgs) :
               ret.pkgs[k].ImportPath = importPaths[ret.pkgs[k].ptr]
        /\ Failed = {} => ret.err = NoError
        /\ Failed # {} =>
              /\ ret.err # NoError
              /\ ret.err = errors[1]
              /\ \E t \in Failed :
                     ret.err = ScrapeError(importPaths[t], outcome[t])
              /\ TestMode =>
                     LET first == CHOOSE t \in Failed :
                                      \A u \in Failed : t <= u
                     IN ret.err = ScrapeError(importPaths[first], outcome[first])

\* C3 witness: [a, b] in parallel mode, a fails, b succeeds: the record for b
\* and an error naming a are returned.
C3_Witness ==
    /\ ReturnedNonEmpty
    /\ ~TestMode
    /\ importPaths = <<"a", "b">>
    /\ outcome[1] = "failed"
    /\ outcome[2] = "ok"
    /\ ret.pkgs = <<parsedPackage("b", 2)>>
    /\ ret.err.path = "a"

\* C4: with an empty identifier list ScrapePackages returns at once with an
\* error and an empty result: no task, no fetch, no counter change.
C4_EmptyInput ==
    Len(importPaths) = 0 /\ cmdpc = "idle" =>
        /\ mainpc \in {"entry", "returned"}
        /\ mainpc = "returned" => ret = [pkgs |-> <<>>, err |-> EmptyInputError]
        /\ stats = ZeroStats
        /\ wg = 0 /\ semaphore = 0
        /\ packages = <<>> /\ errors = <<>>

\* C4 witness: the call with the empty list has returned.
C4_Witness ==
    /\ Len(importPaths) = 0
    /\ mainpc = "returned"
    /\ ret.err = EmptyInputError

\* C5: in test mode identifiers are processed one at a time in input order,
\* all of them, and the records are in the order of their identifiers.
C5_SequentialOrder ==
    TestMode =>
        /\ \A t \in Tasks :
               st[t] # "unspawned" => \A u \in 1..(t - 1) : st[u] = "done"
        /\ Cardinality({t \in Tasks : st[t] \notin {"unspawned", "done"}}) <= 1
        /\ \A j, k \in 1..Len(packages) :
               j < k => packages[j].ptr < packages[k].ptr
        /\ ReturnedNonEmpty =>
              /\ \A t \in Tasks : st[t] = "done"
              /\ ret.pkgs = packages
              /\ Ptrs(ret.pkgs) = Succeeded

\* C5 witness: a two-identifier list in test mode is done, both records
\* returned in input order.
C5_Witness ==
    /\ TestMode
    /\ ReturnedNonEmpty
    /\ importPaths = <<"b", "a">>
    /\ ret.pkgs = <<mockPackage("b", 1), mockPackage("a", 2)>>

\* C6: in parallel mode the records are in the order of the appends, any
\* order of the successful tasks; no record is lost or duplicated.
C6_CompletionOrder ==
    ~TestMode /\ cmdpc = "idle" =>
        /\ \A j, k \in 1..Len(packages) :
               j # k => packages[j].ptr # packages[k].ptr
        /\ Ptrs(packages) =
               {t \in Succeeded : st[t] \in {"release", "wgdone", "done"}}
        /\ ReturnedNonEmpty => ret.pkgs = packages /\ Ptrs(ret.pkgs) = Succeeded

\* C6 witness: the result holds both records, the second identifier's first.
C6_Witness ==
    /\ ~TestMode
    /\ ReturnedNonEmpty
    /\ importPaths = <<"a", "b">>
    /\ ret.pkgs = <<parsedPackage("b", 2), parsedPackage("a", 1)>>

\* C6, the input order is a possible result as well.
C6_WitnessInputOrder ==
    /\ ~TestMode
    /\ ReturnedNonEmpty
    /\ importPaths = <<"a", "b">>
    /\ ret.pkgs = <<parsedPackage("a", 1), parsedPackage("b", 2)>>

\* C7 as stated: once the context is cancelled, a task that had no slot yet
\* (in test mode: an identifier whose iteration had not begun) never starts
\* its fetch+extract, in parallel and in sequential mode.
C7_Original ==
    \A t \in atCancel :
        /\ st[t] \notin InScrape \cup {"checked", "appendPkg", "appendErr"}
        /\ outcome[t] \in {"none", "abandoned"}

\* ------------------------------------------------- scrapeCmd.Run: properties
Passes == 1..Len(log)

\* The lookup of pass k returned a document with a non-nil Package.
HitCase(k) ==
    /\ store = "enabled"
    /\ log[k].lookup \in {"hit", "miss"}
    /\ log[k].doc # NoDoc
    /\ log[k].doc.Package.ptr # 0

\* C8: on a cache hit for an identifier the cached package and raw HTML are
\* appended as they are, ScrapePackageWithRaw is not called, no Upsert is
\* issued and RequestsMade is not incremented for it.
C8_CacheHit ==
    cmdpc # "idle" =>
        /\ \A k \in Passes :
               HitCase(k) =>
                   /\ log[k].fetch = "skipped"
                   /\ log[k].upsert = "skipped"
                   /\ log[k].requests = 0
                   /\ \E j \in 1..Len(pkgs) :
                          /\ pkgs[j] = log[k].doc.Package
                          /\ pkgs[j].ptr = k
                          /\ rawHTMLs[j] = log[k].doc.RawHTML
        /\ stats.RequestsMade =
               Cardinality({k \in Passes : log[k].fetch \in ResponseOutcomes})

\* C8 witness: [a, a]: the first pass scraped and upserted a, the second pass
\* hit the document just stored.
C8_Witness ==
    /\ cmdpc = "output"
    /\ Len(log) = 2
    /\ log[1].fetch = "ok" /\ log[1].upsert = "nil"
    /\ HitCase(2) /\ log[2].fetch = "skipped"
    /\ stats.RequestsMade = 1
    /\ Len(pkgs) = 2

\* C9: with the store nil or disabled the command makes no GetByID and no
\* Upsert, and its results, errors and hard-failure decision are those of the
\* run with an enabled store in which every lookup misses.
C9_DisabledPassThrough ==
    cmdpc # "idle" /\ store # "enabled" =>
        /\ \A k \in Passes :
               log[k].lookup = "skipped" /\ log[k].upsert = "skipped"
        /\ \A id \in Idents : coll[id] = NoDoc
        /\ Results = shadow
        /\ HardFailure(pkgs, scrapeErrors) =
               HardFailure(shadow.pkgs, shadow.scrapeErrors)

\* C9 witness: a finished run without a usable store, one identifier scraped
\* and one failed.
C9_Witness ==
    /\ cmdpc = "output"
    /\ store = "nil"
    /\ Len(pkgs) = 1
    /\ Len(scrapeErrors) = 1
    /\ shadow.pkgs = pkgs

\* C10: a GetByID error makes the identifier be scraped as on a miss, an
\* Upsert error leaves its package and raw HTML in the results; neither adds
\* a scrape error, and the hard failure needs every identifier's scrape to
\* have failed.
C10_CacheErrorsNonFatal ==
    cmdpc # "idle" =>
        /\ \A k \in Passes :
               log[k].lookup = "error" =>
                   log[k].fetch \in ScrapeOutcomes(args[k], TestMode)
        /\ \A k \in Passes :
               log[k].upsert \notin {"nil", "skipped"} =>
                   \E j \in 1..Len(pkgs) :
                       /\ pkgs[j] = ScrapeResult(args[k], log[k].fetch, k).pkg
                       /\ pkgs[j].ptr = k
                       /\ rawHTMLs[j] = ScrapeResult(args[k], log[k].fetch, k).raw
        /\ Len(scrapeErrors) =
               Cardinality({k \in Passes : log[k].fetch \in FailOutcomes})
        /\ \A j \in 1..Len(scrapeErrors) : scrapeErrors[j].cause \in FailOutcomes
        /\ Len(pkgs) = Len(log) - Len(scrapeErrors)
        /\ cmdpc = "fatal" =>
               \A k \in 1..Len(args) : log[k].fetch \in FailOutcomes

\* C10 witness: the lookup and the upsert of an identifier both failed, and
\* the run still ended with every identifier's record.
C10_Witness ==
    /\ cmdpc = "output"
    /\ \E k \in Passes :
           /\ log[k].lookup = "error"
           /\ log[k].fetch = "ok"
           /\ log[k].upsert = "upsert failed"
    /\ Len(pkgs) = Len(args)
    /\ scrapeErrors = <<>>

\* Position of the first occurrence of call c in pass k (0: not made).
CallPos(k, c) ==
    IF \E j \in 1..Len(log[k].calls) : log[k].calls[j] = c
    THEN CHOOSE j \in 1..Len(log[k].calls) : log[k].calls[j] = c
    ELSE 0

CallCount(k, c) == Cardinality({j \in 1..Len(log[k].calls) : log[k].calls[j] = c})

\* C11: with the store enabled each pass looks the identifier up exactly once
\* and before any fetch; it fetches only after a miss or a lookup error; it
\* upserts at most once, only after a successful fetch+extract of that
\* identifier, and never after a failed scrape.
C11_ProtocolOrder ==
    cmdpc # "idle" /\ store = "enabled" =>
        \A k \in Passes :
            /\ CallCount(k, "GetByID") = 1
            /\ CallPos(k, "GetByID") = 1
            /\ CallCount(k, "ScrapePackageWithRaw") <= 1
            /\ CallCount(k, "Upsert") <= 1
            /\ CallPos(k, "ScrapePackageWithRaw") > 0 =>
                   /\ log[k].lookup \in {"miss", "error"}
                   /\ CallPos(k, "GetByID") < CallPos(k, "ScrapePackageWithRaw")
            /\ log[k].lookup \in {"miss", "error"} =>
                   CallPos(k, "ScrapePackageWithRaw") > 0
            /\ CallPos(k, "Upsert") > 0 =>
                   /\ log[k].fetch \in {"ok", "mock"}
                   /\ 0 < CallPos(k, "ScrapePackageWithRaw")
                   /\ CallPos(k, "ScrapePackageWithRaw") < CallPos(k, "Upsert")
                   /\ log[k].id = args[k]
            /\ log[k].fetch \in FailOutcomes =>
                   CallPos(k, "Upsert") = 0 /\ log[k].upsert = "skipped"
            /\ (log[k].upsert # "skipped") = (CallPos(k, "Upsert") > 0)

\* C11 witness: a run on an enabled store with a pass that looked up, missed,
\* scraped and upserted, and a pass whose scrape failed after a lookup error.
C11_Witness ==
    /\ store = "enabled"
    /\ Len(log) = 2
    /\ log[1].calls = <<"GetByID", "ScrapePackageWithRaw", "Upsert">>
    /\ log[1].lookup = "miss"
    /\ log[2].calls = <<"GetByID", "ScrapePackageWithRaw">>
    /\ log[2].lookup = "error"
    /\ log[2].fetch \in FailOutcomes

\* The passes whose identifier produced a record.
Produced == {k \in Passes : log[k].fetch \notin FailOutcomes}

C12_WitnessFatal ==
    /\ cmdpc = "fatal"
    /\ Len(log) = 2
    /\ Len(scrapeErrors) = 2

\* C13: in parallel mode ScrapePackages returns only when every dispatched
\* task is done: none holds a slot, none can still append, and the returned
\* result and error are the final lists.
C13_Barrier ==
    ~TestMode /\ mainpc = "returned" /\ Len(importPaths) > 0 =>
        /\ \A t \in Tasks : st[t] = "done"
        /\ semaphore = 0
        /\ wg = 0
        /\ ret = Returned(packages, errors)
        /\ Ptrs(ret.pkgs) = Succeeded
        /\ Len(errors) = Cardinality(Failed)

\* C13 witness: a parallel run over two identifiers returned after one task
\* appended a record and the other an error.
C13_Witness ==
    /\ ~TestMode
    /\ mainpc = "returned"
    /\ Len(importPaths) = 2
    /\ Len(ret.pkgs) = 1
    /\ Len(errors) = 1
    /\ \A t \in Tasks : st[t] = "done"

\* The trimmed text of an element the block itself has ("" when it has none).
OwnText(sel) == TrimSpace(FirstText(sel))

\* The positions k at which ok[k] holds, in increasing order.
RECURSIVE TrueIdxFrom(_, _)
TrueIdxFrom(ok, k) ==
    IF k > Len(ok) THEN <<>>
    ELSE (IF ok[k] THEN <<k>> ELSE <<>>) \o TrueIdxFrom(ok, k + 1)

TrueIdx(ok) == TrueIdxFrom(ok, 1)

\* The declaration blocks of a section with a non-blank pre.
BearingDecls(ch) ==
    TrueIdx([k \in 1..Len(ch) |-> ch[k].tag = "decl" /\ OwnText(ch[k].pre) # ""])

\* The function / type blocks with a non-blank signature / definition.
BearingBlocks(bs) == TrueIdx([k \in 1..Len(bs) |-> OwnText(bs[k].decl) # ""])

\* The description of declaration block k: the paragraph right after it.
OwnDescription(ch, k) ==
    IF k < Len(ch) /\ ch[k + 1].tag = "p" THEN TrimSpace(ch[k + 1].text) ELSE ""

\* The added-in version a block shows itself.
OwnAddedIn(b) ==
    IF b.since = <<>> THEN ""
    ELSE IF OwnText(b.since[1].ver) # "" THEN OwnText(b.since[1].ver)
    ELSE TrimSpace(b.since[1].label)

OwnDeprecated(b) == IF b.dep = <<>> THEN "" ELSE "deprecated"

PageParsed == ppc \in {"wait", "returned"} /\ parsed.called

\* C14 (as stated): the scrape of a page fails with the no-data error exactly
\* when the name and the import path extracted from the page are both empty;
\* every other page is a success.
C14_Original ==
    ppc = "returned" =>
        (scraped.err = "no package data found")
            = (OwnText(page.title) = "" /\ OwnText(page.breadcrumb) = "")

\* C15 (as stated): every function block with a signature and every type
\* block with a definition is appended, under a non-empty name, also when its
\* heading has no id.
C15_Original ==
    PageParsed =>
        /\ Len(parsed.pkg.Functions) = Len(BearingBlocks(page.functions))
        /\ Len(parsed.pkg.Types) = Len(BearingBlocks(page.types))
        /\ \A j \in 1..Len(parsed.pkg.Functions) :
               parsed.pkg.Functions[j].Name # ""
        /\ \A j \in 1..Len(parsed.pkg.Types) : parsed.pkg.Types[j].Name # ""

\* Entry j of an extracted sequence is the j-th content-bearing block: idx are
\* the positions of those blocks, code and desc their own code and description.
SameSequence(entries, idx, code(_), desc(_), codeOf(_)) ==
    /\ Len(entries) = Len(idx)
    /\ \A j \in 1..Len(entries) : j <= Len(idx) =>
           /\ codeOf(entries[j]) = code(idx[j])
           /\ desc(idx[j]) = "" => entries[j].Description = ""

\* C16 (as stated): each of Constants, Variables, Functions and Types is the
\* document-order subsequence of the blocks with non-blank code, one entry per
\* such block, with an empty description when the block has none.
C16_Original ==
    PageParsed =>
        /\ SameSequence(parsed.pkg.Constants, BearingDecls(page.constants),
                        LAMBDA k : OwnText(page.constants[k].pre),
                        LAMBDA k : OwnDescription(page.constants, k),
                        LAMBDA e : e.Value)
        /\ SameSequence(parsed.pkg.Variables, BearingDecls(page.variables),
                        LAMBDA k : OwnText(page.variables[k].pre),
                        LAMBDA k : OwnDescription(page.variables, k),
                        LAMBDA e : e.Type)
        /\ SameSequence(parsed.pkg.Functions, BearingBlocks(page.functions),
                        LAMBDA k : OwnText(page.functions[k].decl),
                        LAMBDA k : OwnText(page.functions[k].p),
                        LAMBDA e : e.Signature)
        /\ SameSequence(parsed.pkg.Types, BearingBlocks(page.types),
                        LAMBDA k : OwnText(page.types[k].decl),
                        LAMBDA k : OwnText(page.types[k].p),
                        LAMBDA e : e.Definition)

\* C17 (as stated): the fields of a declaration come from that declaration
\* alone: the description of a constant or variable is the paragraph right
\* after its block ("" when the next sibling is another block), the fields of
\* a function are those of its own block.
C17_Original ==
    PageParsed =>
        /\ \A j \in 1..Len(parsed.pkg.Constants) :
               parsed.pkg.Constants[j].Description
                   = OwnDescription(page.constants, BearingDecls(page.constants)[j])
        /\ \A j \in 1..Len(parsed.pkg.Variables) :
               parsed.pkg.Variables[j].Description
                   = OwnDescription(page.variables, BearingDecls(page.variables)[j])
        /\ \A j \in 1..Len(parsed.pkg.Functions) :
               LET b == page.functions[BearingBlocks(page.functions)[j]]
                   f == parsed.pkg.Functions[j]
               IN  /\ f.Description = OwnText(b.p)
                   /\ f.AddedIn = OwnAddedIn(b)
                   /\ f.Deprecated = OwnDeprecated(b)
                   /\ f.Signature = OwnText(b.decl)

\* The method blocks of a type block that ParseMethods keeps.
KeptMethods(b) ==
    TrueIdx([k \in 1..Len(b.methods) |->
                \/ OwnText(b.methods[k].decl) # ""
                \/ b.methods[k].h4 # <<>>])

\* C18 (as stated): a type's definition, description, added-in version and
\* deprecated marker are those of the type block itself, never those of a
\* method block nested in it, and a method's fields are those of its block.
C18_Original ==
    PageParsed /\ Len(page.types) = 1 =>
        \A j \in 1..Len(parsed.pkg.Types) :
            LET b == page.types[1]
                t == parsed.pkg.Types[j]
            IN  /\ t.Definition = OwnText(b.decl)
                /\ t.Description = OwnText(b.p)
                /\ t.AddedIn = OwnAddedIn(b)
                /\ t.Deprecated = OwnDeprecated(b)
                /\ Len(t.Methods) = Len(KeptMethods(b))
                /\ \A i \in 1..Len(t.Methods) :
                       LET m == b.methods[KeptMethods(b)[i]]
                       IN  /\ t.Methods[i].Signature = OwnText(m.decl)
                           /\ t.Methods[i].Description = OwnText(m.p)
                           /\ t.Methods[i].AddedIn = OwnAddedIn(m)
                           /\ t.Methods[i].Deprecated = OwnDeprecated(m)

\* A remainder made of decimal digits and commas, with a digit.
IsDigitsWithCommas(cs) ==
    /\ \E i \in 1..Len(cs) : IsDigit(cs[i])
    /\ \A i \in 1..Len(cs) : IsDigit(cs[i]) \/ cs[i] = ","

\* An optional sign and decimal digits.
IsIntegerLiteral(cs) ==
    \/ cs # <<>> /\ \A i \in 1..Len(cs) : IsDigit(cs[i])
    \/ Len(cs) > 1 /\ cs[1] \in {"+", "-"} /\ \A i \in 2..Len(cs) : IsDigit(cs[i])

\* The field parsed from the link el under the label prefixes given.
CountIsRight(el, prefixes, field) ==
    LET value == LabelledValue(el)
        has == {pfx \in prefixes : HasPrefix(value, pfx)}
    IN  IF has = {} THEN field = 0
        ELSE \A pfx \in has :
                 LET rest == TrimSpaceChars(SubSeq(value, Len(pfx) + 1, Len(value)))
                 IN  /\ IsDigitsWithCommas(rest) =>
                            field = DecimalValue(SelectSeq(rest, IsDigit))
                     /\ ~IsIntegerLiteral(SelectSeq(rest, LAMBDA c : c # ",")) =>
                            field = 0

\* C19: a count "<Label>: <digits with optional commas>" sets the field to the
\* integer without the commas; a remainder that is no integer, or a value
\* without the label, leaves the field 0; the parse never fails.
C19_NumericParsing ==
    PageParsed =>
        /\ parsed.err = "nil"
        /\ IF page.imports = <<>> THEN parsed.pkg.Imports = 0
           ELSE CountIsRight(page.imports[1], {ImportsPrefix}, parsed.pkg.Imports)
        /\ IF page.importedBy = <<>> THEN parsed.pkg.ImportedBy = 0
           ELSE CountIsRight(page.importedBy[1],
                             {ImportedByPrefix, ImportedbyPrefix},
                             parsed.pkg.ImportedBy)
        /\ ppc = "returned" => scraped.err = "nil"

\* C19 witness: "Imported By: 177,680" was parsed to 177680.
C19_Witness ==
    /\ ppc = "returned"
    /\ page.importedBy # <<>>
    /\ LabelledValue(page.importedBy[1])
           = ImportedByPrefix \o <<"1", "7", "7", ",", "6", "8", "0">>
    /\ scraped.pkg.ImportedBy = 177680

\* C19, "Imported By: N/A" was parsed and left the field 0.
C19_WitnessNA ==
    /\ ppc = "returned"
    /\ page.importedBy # <<>>
    /\ LabelledValue(page.importedBy[1]) = ImportedByPrefix \o <<"N", "/", "A">>
    /\ scraped.pkg.ImportedBy = 0
    /\ scraped.err = "nil"

\* The text has no tag and no entity: no "<" and no "&".
NoMarkup(s) == \A i \in 1..Len(s) : s[i] \notin {"<", "&"}

AllWhiteSpace(s) == \A i \in 1..Len(s) : s[i] \in WhiteSpace

\* Three characters in a row from position i.
ThreeAt(s, i, a, b, c) ==
    i + 2 <= Len(s) /\ s[i] = a /\ s[i + 1] = b /\ s[i + 2] = c

\* Plain text the clean-up stages have nothing to do on: no white space at
\* either end, no "\r\n", no run of three newlines, no lone backtick line.
Tidy(s) ==
    /\ s # <<>>
    /\ s[1] \notin WhiteSpace
    /\ s[Len(s)] \notin WhiteSpace
    /\ \A i \in 1..Len(s) :
           /\ ~ThreeAt(s, i, "\n", "\n", "\n")
           /\ ~ThreeAt(s, i, "\n", Backtick, "\n")
           /\ ~(i < Len(s) /\ s[i] = "\r" /\ s[i + 1] = "\n")

\* The characters of s that are neither white space nor backticks.
Ink(s) == SelectSeq(s, LAMBDA c : c \notin WhiteSpace \cup {Backtick})

\* C20 (as stated): on every input without markup, text with white space at
\* its ends or with runs of blank lines included, the result is the input.
C20_Original ==
    rpc = "done" /\ NoMarkup(input) => html = input

\* C20 (amended): every stage of the conversion has a result; an empty or
\* all-white-space input is returned unchanged; plain text without white
\* space at its ends, "\r\n", three newlines in a row or a lone backtick line
\* is returned unchanged; any other plain text comes back trimmed, without
\* three newlines in a row, and with the same characters otherwise.
C20_IdentityOnTidyText ==
    /\ rpc \in {"unescape", "reunescape"} => UnescapeResults(html) # {}
    /\ rpc = "blocks" => BlockResults(html) # {}
    /\ rpc = "done" =>
           /\ AllWhiteSpace(input) => html = input
           /\ NoMarkup(input) /\ Tidy(input) => html = input
           /\ NoMarkup(input) /\ ~AllWhiteSpace(input) =>
                  /\ html # <<>>
                  /\ html[1] \notin WhiteSpace
                  /\ html[Len(html)] \notin WhiteSpace
                  /\ \A i \in 1..Len(html) : ~ThreeAt(html, i, "\n", "\n", "\n")
                  /\ Ink(html) = Ink(input)

\* C20 witness: plain text with inner white space came back as it was.
C20_Witness ==
    /\ rpc = "done"
    /\ input = <<"a", " ", "a">>
    /\ html = input

\* C20, an all-white-space input came back as it was.
C20_WitnessBlank ==
    /\ rpc = "done"
    /\ input = <<" ", "\n", " ">>
    /\ html = input

\* C20, plain text came back trimmed and with its blank lines collapsed.
C20_WitnessTrimmed ==
    /\ rpc = "done"
    /\ input = <<"a", "\n", "\n", "\n", "\n", "b">>
    /\ html = <<"a", "\n", "\n", "b">>

\* ----------------------------------------- ConvertHTMLToMarkdown: properties
\* The fenced-code stage from position at on, as the set of its results (one
\* per order of the entity range inside each replaced block).
RECURSIVE FenceResults(_, _)
FenceResults(s, at) ==
    LET i == NextPreCode(s, at)
        m == PreCodeAt(s, i)
    IN  IF i = 0 THEN {s}
        ELSE UNION {FenceResults(SubSeq(s, 1, i - 1) \o Fence(m.attrs, code)
                                     \o SubSeq(s, m.end + 1, Len(s)),
                                 i + Len(Fence(m.attrs, code))) :
                        code \in UnescapeResults(m.code)}

\* Stages 2) to 5), which have one result each.
InlineStages(s) ==
    ReplaceInlineCode(Images(ReplaceAnchors(HeadingsFrom(s, 1), 1)), 1)

\* Stages 7) to 9) behind one result of the block map, fixFences telling
\* whether stage 8) is among them.
TailResults(s, fixFences) ==
    LET stripped == stripAllTags(s)
        fixed == IF fixFences THEN FixFences(stripped) ELSE stripped
    IN  {TrimSpaceChars(CollapseBlankLines(u)) : u \in UnescapeResults(fixed)}

\* The results a call chain of the stages can return on a non-blank text.
StagesResults(s, fixFences) ==
    LET unescaped == UnescapeResults(ReplaceAll(s, <<"\r", "\n">>, <<"\n">>))
        fenced == UNION {FenceResults(u, 1) : u \in unescaped}
        blocks == UNION {BlockResults(InlineStages(f)) : f \in fenced}
    IN  UNION {TailResults(b, fixFences) : b \in blocks}

\* The texts ConvertHTMLToMarkdown(s) can return, one per choice of the
\* orders in which the two maps are ranged over.
ReduceResults(s) == IF IsBlank(s) THEN {s} ELSE StagesResults(s, TRUE)

\* What the stage actions return is a result of the composed stages.
ReduceIsComposition == rpc = "done" => html \in ReduceResults(input)

\* C21 (as stated): the result is a function of the input: whatever the orders
\* in which the entity table and the block table are ranged over, a call on
\* this input returns the text this call returned.
C21_Original == rpc = "done" => ReduceResults(input) = {html}

\* C21, the entity table: the result depends on whether "&amp;" or "&lt;" is
\* replaced first.
C21_EntityOrderShows ==
    /\ rpc = "done"
    /\ input = <<"&", "a", "m", "p", ";", "a", "m", "p", ";", "l", "t", ";">>
    /\ html = <<"&", "l", "t", ";">>
    /\ <<"<">> \in ReduceResults(input)

\* <h2>Title</h2><p>Body &amp; more</p>
Scenario3 ==
    <<"<", "h", "2", ">", "T", "i", "t", "l", "e", "<", "/", "h", "2", ">",
      "<", "p", ">", "B", "o", "d", "y", " ", "&", "a", "m", "p", ";", " ",
      "m", "o", "r", "e", "<", "/", "p", ">">>

Scenario3Result ==
    <<"#", "#", " ", "T", "i", "t", "l", "e", "\n", "\n",
      "B", "o", "d", "y", " ", "&", " ", "m", "o", "r", "e">>

\* No "<" of s has a ">" somewhere behind it.
NoTagSpan(s) ==
    \A i, j \in 1..Len(s) : i < j => ~(s[i] = "<" /\ s[j] = ">")

\* What holds of the strip stage and of scenario 3 in both versions of C22.
StripAndScenario ==
    /\ rpc = "fences" => NoTagSpan(html)
    /\ rpc = "done" /\ input = Scenario3 => html = Scenario3Result

\* C22 (as stated): the result is the composition of the ten listed stages
\* and of nothing else (a blank input is returned as it is); the text behind
\* the strip stage has no "<" followed by a ">"; scenario 3 gives
\* "## Title\n\nBody & more".
C22_Original ==
    /\ rpc = "done" =>
           html \in (IF AllWhiteSpace(input) THEN {input}
                     ELSE StagesResults(input, FALSE))
    /\ StripAndScenario

\* C22 (amended): the result is the composition of the listed stages with the
\* lone-backtick fence fix between the strip stage and the second unescape,
\* for one order of each table; the text behind the strip stage has no "<"
\* followed by a ">"; scenario 3 gives "## Title\n\nBody & more".
C22_StagesWithFenceFix ==
    /\ rpc = "done" =>
           html \in (IF AllWhiteSpace(input) THEN {input}
                     ELSE StagesResults(input, TRUE))
    /\ StripAndScenario

\* C22 witness: scenario 3 went through the stages.
C22_Witness ==
    /\ rpc = "done"
    /\ input = Scenario3
    /\ html = Scenario3Result

\* C22, a tag was stripped: the text before the strip stage had a "<" ... ">"
\* span left, the text behind it has none.
C22_WitnessStrip ==
    /\ rpc = "fences"
    /\ input = <<"<", "a", ">">>
    /\ html = <<>>

\* C22, the fence fix acted: a lone backtick line became a fence.
C22_WitnessFenceFix ==
    /\ rpc = "done"
    /\ input = <<"a", "\n", Backtick, "\n", "b">>
    /\ html = <<"a", "\n", Backtick, Backtick, Backtick, "\n", "b">>

\* --------------------------------------------------- scrapeCmd.Run: output
\* markdown.PackageToMarkdown(pkg): the header line, which is written for
\* every package; the sections behind it are left out.
PackageToMarkdown(pkg) ==
    "# " \o pkg.Name \o " package - " \o pkg.ImportPath \o "\n\n"

\* Pass j of the loop appended to pkgs and rawHTMLs: a cache hit or a scrape
\* without error.
Appended(j) == log[j].lookup = "hit" \/ log[j].fetch \in {"mock", "ok"}

\* Where the package of pass k is in pkgs.
Pos(k) == Cardinality({j \in 1..k : Appended(j)})

\* C23: in test mode a call of ScrapePackageWithRaw on an identifier that is
\* not blank issues no request, changes no counter and returns the mock
\* package (ImportPath the identifier, Functions = <<"Execute">>) with
\* non-empty raw HTML; the command run in test mode on one such identifier
\* does not end in log.Fatalf and prints non-empty output.
C23_TestModeMock ==
    TestMode /\ cmdpc # "idle" =>
        /\ stats = ZeroStats
        /\ \A k \in 1..Len(log) :
               TrimSpace(args[k]) # "" /\ log[k].fetch # "skipped" =>
                   /\ log[k].fetch = "mock"
                   /\ log[k].requests = 0
                   /\ Pos(k) <= Len(pkgs)
                   /\ pkgs[Pos(k)].ptr # 0
                   /\ pkgs[Pos(k)].ImportPath = args[k]
                   /\ pkgs[Pos(k)].Functions = <<"Execute">>
                   /\ rawHTMLs[Pos(k)] # ""
        /\ Len(args) = 1 /\ TrimSpace(args[1]) # "" =>
               /\ cmdpc # "fatal"
               /\ cmdpc = "done" =>
                      /\ Len(emitted) = 1
                      /\ PackageToMarkdown(emitted[1]) # ""

\* C23 witness: the command ran in test mode on "a" without a store and
\* rendered the mock package.
C23_Witness ==
    /\ TestMode
    /\ cmdpc = "done"
    /\ args = <<"a">>
    /\ store = "disabled"
    /\ log[1].fetch = "mock"
    /\ emitted = <<mockPackage("a", 1)>>

\* ScrapePackages appends a package only behind a nil error: no element of
\* packages, and of what is returned, is the nil pointer.
PoolPackagesNonNil ==
    /\ \A k \in 1..Len(packages) : packages[k].ptr # 0
    /\ \A k \in 1..Len(ret.pkgs) : ret.pkgs[k].ptr # 0

\* The same of the call that fetched and parsed a page.
ScrapedNilIffError ==
    ppc = "returned" => (scraped.isNil <=> scraped.err # "nil")

\* C24: ScrapePackageWithRaw returns the nil package exactly when it returns
\* an error; a pass counts as a cache hit only with a non-nil doc.Package; so
\* no element of pkgs, and nothing handed to the renderer, is nil.
C24_NoNilRecord ==
    /\ \A k \in 1..Len(args) : \A o \in ScrapeOutcomes(args[k], TestMode) :
           ScrapeResult(args[k], o, k).pkg.ptr = 0
               <=> ScrapeResult(args[k], o, k).err # "nil"
    /\ \A k \in 1..Len(log) :
           log[k].lookup = "hit" => log[k].doc.Package.ptr # 0
    /\ \A k \in 1..Len(pkgs) : pkgs[k].ptr # 0
    /\ \A k \in 1..Len(emitted) : emitted[k].ptr # 0

\* C24 witness: the lookup of the first argument returned a document whose
\* Package is nil, the argument was scraped instead, and the run rendered
\* its packages.
C24_Witness ==
    /\ cmdpc = "done"
    /\ Len(log) >= 1
    /\ log[1].doc = nilPackageDoc(args[1])
    /\ log[1].lookup = "miss"
    /\ log[1].fetch = "ok"
    /\ Len(emitted) >= 1

\* The number of passes whose call of ScrapePackageWithRaw ended in one of S.
Fetches(S) == Cardinality({k \in 1..Len(log) : log[k].fetch \in S})

\* C25: a call of ScrapePackageWithRaw on an identifier that is blank after
\* trimming returns the error before anything else, in test mode and in
\* normal mode: no mock, no request, no counter changed; an identifier that
\* is not blank is never refused by this check.
C25_BlankRejected ==
    /\ \A k \in 1..Len(log) : log[k].fetch # "skipped" =>
           IF TrimSpace(args[k]) = ""
           THEN /\ log[k].fetch = "empty"
                /\ log[k].requests = 0
                /\ \E e \in 1..Len(scrapeErrors) :
                       scrapeErrors[e] = ScrapeError(args[k], "empty")
           ELSE log[k].fetch \in (IF TestMode THEN {"mock"}
                                  ELSE {"rejected"} \cup ResponseOutcomes)
    /\ stats.RequestsMade = Fetches(ResponseOutcomes)
    /\ stats.Errors = Fetches({"failed"})
    /\ stats.PackagesScraped = Fetches({"ok"})

\* C25 witness: in test mode a blank identifier was refused and the next
\* identifier got the mock.
C25_Witness ==
    /\ TestMode
    /\ args = <<" ", "a">>
    /\ Len(log) = 2
    /\ log[1].fetch = "empty"
    /\ log[2].fetch = "mock"
    /\ stats = ZeroStats

\* C25, normal mode: a blank identifier was refused behind a request that
\* was counted for the identifier before it.
C25_WitnessNormal ==
    /\ ~TestMode
    /\ args = <<"a", " ">>
    /\ Len(log) = 2
    /\ log[1].fetch = "ok"
    /\ log[2].fetch = "empty"
    /\ stats.RequestsMade = 1

\* -------------------------------------------------- ScrapePackages: counters
\* The tasks whose request was issued.
Requested ==
    {t \in Tasks : st[t] = "requested" \/ outcome[t] \in ResponseOutcomes}

C26_WitnessInFlight ==
    /\ ~TestMode
    /\ Len(importPaths) = 2
    /\ \A t \in Tasks : st[t] = "requested"
    /\ stats.RequestsMade = 2

\* ------------------------------------------------------ the store: properties
\* The calls before call k that upserted a document under the id of call k.
UpsertsBefore(k) ==
    {j \in 1..(k - 1) :
        log[j].op = "Upsert" /\ log[j].err = "nil" /\ log[j].id = log[k].id}

LastOf(S) == CHOOSE j \in S : \A i \in S : i <= j

\* The same document, the pointer's identity apart.
SameDoc(d, e) ==
    /\ d.ID = e.ID
    /\ d.RawHTML = e.RawHTML
    /\ (d.Package.ptr = 0) = (e.Package.ptr = 0)
    /\ [d.Package EXCEPT !.ptr = 0] = [e.Package EXCEPT !.ptr = 0]

\* C27: on an enabled store a GetByID the database answers returns (nil,
\* nil) for an id never upserted and else the document of the last Upsert
\* under that id; an Upsert the database answers replaces or inserts the
\* document under its id and touches no other id; Upsert of the nil document
\* or of an empty ID returns an error and changes nothing; on a disabled or
\* nil store both calls return an error and change nothing.
C27_StoreSemantics ==
    cmdpc = "calls" =>
        \A k \in 1..Len(log) :
            LET e == log[k] IN
            /\ e.op = "GetByID" => e.after = e.before
            /\ ~StoreEnabled(store) =>
                   e.err = "store disabled" /\ e.after = e.before
                       /\ (e.op = "GetByID" => e.doc = NoDoc)
            /\ StoreEnabled(store) /\ e.op = "GetByID" =>
                   IF e.err # "nil" THEN e.err = "lookup failed" /\ e.doc = NoDoc
                   ELSE IF UpsertsBefore(k) = {} THEN e.doc = NoDoc
                   ELSE SameDoc(e.doc, log[LastOf(UpsertsBefore(k))].doc)
            /\ StoreEnabled(store) /\ e.op = "Upsert" =>
                   IF e.doc = NoDoc \/ e.doc.ID = ""
                   THEN e.err = "invalid document or missing ID"
                            /\ e.after = e.before
                   ELSE IF e.err # "nil" THEN e.err = "upsert failed"
                   ELSE /\ e.after[e.id] = e.doc
                        /\ \A id \in Idents \ {e.id} : e.after[id] = e.before[id]

\* C27 witness: two documents were upserted under "a" one after the other
\* and the lookup of "a" returned the second.
C27_Witness ==
    /\ cmdpc = "calls"
    /\ store = "enabled"
    /\ Len(log) = 3
    /\ log[1].op = "Upsert" /\ log[1].err = "nil" /\ log[1].id = "a"
    /\ log[1].doc.RawHTML = "v1"
    /\ log[2].op = "Upsert" /\ log[2].err = "nil" /\ log[2].id = "a"
    /\ log[2].doc.RawHTML = "v2"
    /\ log[3].op = "GetByID" /\ log[3].err = "nil" /\ log[3].id = "a"
    /\ log[3].doc.RawHTML = "v2"

\* C27, an id never upserted: (nil, nil) behind an Upsert under another id.
C27_WitnessMiss ==
    /\ cmdpc = "calls"
    /\ store = "enabled"
    /\ Len(log) = 2
    /\ log[1].op = "Upsert" /\ log[1].err = "nil" /\ log[1].id = "a"
    /\ log[2].op = "GetByID" /\ log[2].err = "nil" /\ log[2].id = "b"
    /\ log[2].doc = NoDoc

\* C27, refused documents: the nil document and one with the empty ID.
C27_WitnessInvalid ==
    /\ cmdpc = "calls"
    /\ store = "enabled"
    /\ Len(log) = 2
    /\ log[1].op = "Upsert" /\ log[1].doc = NoDoc /\ log[1].err # "nil"
    /\ log[2].op = "Upsert" /\ log[2].doc # NoDoc /\ log[2].doc.ID = ""
    /\ log[2].err # "nil"
    /\ coll = [id \in Idents |-> NoDoc]

\* ----------------------------------------------- ScrapePackages: termination
\* Some step of the call or of one of its tasks can be taken without the
\* context being cancelled (a fetch that was begun always ends).
CanStep ==
    \/ mainpc \in {"entry", "spawn", "seq_select", "seq_call"}
    \/ mainpc = "wait" /\ WaitPasses(wg)
    \/ \E t \in Tasks : st[t] \in Holding \cup {"wgdone"}
    \/ \E t \in Tasks : st[t] = "waiting" /\ CanSend(semaphore, MaxConcurrency)

\* C28 (as stated): for every MaxConcurrency New accepts, 0 included, a call
\* on a non-empty list whose context is never cancelled is never stuck before
\* it has returned: a waiting task can acquire a slot, a held slot can be
\* released, or wg.Wait() can pass.
C28_Original ==
    importPaths # <<>> /\ mainpc \notin {"idle", "returned"} /\ ~ctxDone
        => CanStep

\* C28, the stuck state: MaxConcurrency = 0, every task waits for a slot,
\* the caller waits in wg.Wait().
C28_Stuck ==
    /\ ~TestMode
    /\ MaxConcurrency = 0
    /\ importPaths # <<>>
    /\ mainpc = "wait"
    /\ ~ctxDone
    /\ \A t \in Tasks : st[t] = "waiting"
    /\ wg = Len(importPaths)

\* ------------------------------------------------ scrapeCmd.Run: cache keys
\* The passes from k on that upserted a document for the argument of pass k.
UpsertedFrom(k) ==
    {i \in k..Len(log) : log[i].upsert = "nil" /\ args[i] = args[k]}

\* The document pass i built from what it scraped.
DocOf(i) ==
    LET sr == ScrapeResult(args[i], log[i].fetch, i)
    IN  [ID |-> UpsertID(sr.pkg, args[i]), Package |-> sr.pkg, RawHTML |-> sr.raw]

\* C29: the id of every upsert is the argument X the lookup was made with;
\* once X was scraped and its Upsert succeeded, the collection holds under X
\* the package and raw HTML last scraped for X, and every later lookup of X
\* that the store answers is a hit returning them, with no fetch.
C29_KeyRoundTrip ==
    cmdpc \in {"loop", "output", "fatal", "done"} =>
        \A k \in 1..Len(log) :
            /\ log[k].id # "" => log[k].id = args[k]
            /\ log[k].upsert = "nil" =>
                   /\ log[k].fetch \in {"mock", "ok"}
                   /\ coll[args[k]] = DocOf(LastOf(UpsertedFrom(k)))
                   /\ IsCacheHit([doc |-> coll[args[k]], err |-> "nil"])
                   /\ \A j \in (k + 1)..Len(log) :
                          args[j] = args[k] /\ log[j].lookup # "error" =>
                              /\ log[j].lookup = "hit"
                              /\ log[j].fetch = "skipped"
                              /\ log[j].requests = 0
                              /\ \E i \in k..(j - 1) : SameDoc(log[j].doc, DocOf(i))

\* C29 witness: "a" was fetched and upserted by the first pass and the second
\* pass, on "a" again, got it from the store.
C29_Witness ==
    /\ cmdpc = "done"
    /\ ~TestMode
    /\ args = <<"a", "a">>
    /\ log[1].fetch = "ok" /\ log[1].upsert = "nil" /\ log[1].id = "a"
    /\ log[2].lookup = "hit" /\ log[2].fetch = "skipped"
    /\ SameDoc(log[2].doc, DocOf(1))
    /\ stats.RequestsMade = 1

\* --------------------------------------------- scrapeCmd.Run: pkgs, rawHTMLs
\* The (package, raw HTML) pair pass k obtained: from the store on a hit,
\* from ScrapePackageWithRaw else.
PairOf(k) ==
    IF log[k].lookup = "hit"
    THEN [pkg |-> log[k].doc.Package, raw |-> log[k].doc.RawHTML]
    ELSE [pkg |-> ScrapeResult(args[k], log[k].fetch, k).pkg,
          raw |-> ScrapeResult(args[k], log[k].fetch, k).raw]

\* C30: after any number of passes pkgs and rawHTMLs have the same length,
\* one element per pass that hit the cache or scraped without error, and
\* rawHTMLs[i] is the raw HTML obtained together with pkgs[i]; so for every
\* package rendered rawHTMLs[i] exists.
C30_Aligned ==
    cmdpc \in {"loop", "output", "fatal", "done"} =>
        /\ Len(pkgs) = Len(rawHTMLs)
        /\ Len(pkgs) = Pos(Len(log))
        /\ \A k \in 1..Len(log) : Appended(k) =>
               /\ pkgs[Pos(k)] = PairOf(k).pkg
               /\ rawHTMLs[Pos(k)] = PairOf(k).raw
        /\ \A i \in 1..Len(emitted) :
               i <= Len(rawHTMLs) /\ emitted[i] = pkgs[i]

\* C30 witness: a cache hit and a fetched package in one run; the two lists
\* hold the stored pair and then the fetched pair.
C30_Witness ==
    /\ cmdpc = "done"
    /\ Len(log) = 2
    /\ Len(scrapeErrors) = 0
    /\ log[1].lookup = "hit"
    /\ log[2].fetch = "ok"
    /\ rawHTMLs = <<"stored html", FetchedHTML(args[2])>>
    /\ Len(emitted) = 2

\* C30, a pass that appended nothing: its lookup failed and its scrape
\* failed; the package fetched by the next pass is first in both lists.
C30_WitnessMixed ==
    /\ cmdpc = "done"
    /\ Len(log) = 2
    /\ log[1].lookup = "error"
    /\ log[1].fetch = "failed"
    /\ log[2].fetch = "ok"
    /\ Len(pkgs) = 1
    /\ rawHTMLs = <<FetchedHTML(args[2])>>

====
